---- MODULE Spec2Model ----
(***************************************************************************)
(* A model of the UHML builder: the macro resolution engine                *)
(* (ComponentResolver), the cleanup pass and the code generator of main.   *)
(*                                                                         *)
(* AST nodes live in a heap (a sequence of node records addressed by their *)
(* index), so that object identity, in-place mutation and aliasing are     *)
(* part of the model.  JSON documents are tagged values.  The recursive    *)
(* walk of traverseAndProcessDirectives is run step by step over an        *)
(* explicit call stack.                                                    *)
(***************************************************************************)
EXTENDS Integers, Sequences, FiniteSets, TLC

(***************************************************************************)
(* Bounds of the model.                                                    *)
(***************************************************************************)
\* longest dataset a loop iterates
MaxItems == 2
\* how often the scan may come back to a marker it has just skipped
MaxSkips == 2

(***************************************************************************)
(* JSON values and JavaScript's view of them.  A string value is either a  *)
(* plain string ("str") or a string of the form "{{ a.b.c }}" ("bind",     *)
(* with the dotted path as a sequence of segments): the only distinction   *)
(* the resolver's regular expressions make.                                *)
(***************************************************************************)
Undef == [t |-> "undef"]
Null == [t |-> "null"]
Str(s) == [t |-> "str", v |-> s]
Bool(b) == [t |-> "bool", v |-> b]
Num(n) == [t |-> "num", v |-> n]
\* a property string holding `{StaticResource <key>}`
Res(key) == [t |-> "res", v |-> key]

\* a string of the source text, character by character
Chars(text) == [t |-> "chars", v |-> text]

Bind(path) == [t |-> "bind", v |-> path]
Arr(s) == [t |-> "arr", v |-> s]
Obj(f) == [t |-> "obj", v |-> f]

\* typeof value === "string"
IsString(val) == val.t \in {"str", "bind", "res", "chars"}

LowerLetters == <<"a", "b", "c", "d", "e", "f", "g", "h", "i", "j", "k", "l", "m", "n", "o",
                  "p", "q", "r", "s", "t", "u", "v", "w", "x", "y", "z">>
UpperLetters == <<"A", "B", "C", "D", "E", "F", "G", "H", "I", "J", "K", "L", "M", "N", "O",
                  "P", "Q", "R", "S", "T", "U", "V", "W", "X", "Y", "Z">>
DigitChars == <<"0", "1", "2", "3", "4", "5", "6", "7", "8", "9">>
Letters == {LowerLetters[k] : k \in 1..26} \cup {UpperLetters[k] : k \in 1..26}
Digits == {DigitChars[k] : k \in 1..10}

\* /\s/
IsSpace(c) == c \in {" ", "\t", "\n", "\r"}

\* text.trim()
RECURSIVE Trim(_)
Trim(text) ==
    IF text = <<>> THEN text
    ELSE IF IsSpace(Head(text)) THEN Trim(Tail(text))
    ELSE IF IsSpace(text[Len(text)]) THEN Trim(SubSeq(text, 1, Len(text) - 1))
    ELSE text

\* Array.isArray(value)
IsArray(val) == val.t = "arr"

\* !!value
Truthy(val) ==
    CASE val.t \in {"undef", "null"} -> FALSE
      [] val.t = "bool" -> val.v
      [] val.t = "num" -> val.v # 0
      [] val.t = "str" -> val.v # ""
      [] val.t = "chars" -> val.v # <<>>
      [] OTHER -> TRUE

\* value[key] for a value that is neither null nor undefined; the keys of the
\* model are field names, never "length" or an index.
Get(val, key) ==
    IF val.t = "obj" /\ key \in DOMAIN val.v THEN val.v[key] ELSE Undef

\* value?.[key]
OptGet(val, key) ==
    IF val.t \in {"undef", "null"} THEN Undef ELSE Get(val, key)

\* let cur = value; for (part of path) { cur = cur?.[part]; if (cur === undefined) stop }
RECURSIVE WalkPath(_, _)
WalkPath(val, path) ==
    IF path = <<>> THEN val
    ELSE LET cur == OptGet(val, Head(path))
         IN IF cur = Undef THEN Undef ELSE WalkPath(cur, Tail(path))

(***************************************************************************)
(* A finite map with a growing domain (the resolver's four Maps).          *)
(***************************************************************************)
EmptyMap == [x \in {} |-> Undef]
Has(m, k) == k \in DOMAIN m
Put(m, k, val) == [x \in DOMAIN m \cup {k} |-> IF x = k THEN val ELSE m[x]]

(***************************************************************************)
(* AST nodes.  One record shape for the five node types; a field a type    *)
(* does not carry holds its default.  `kids` is the node's child array:    *)
(* `body` of a Program, `children` of an Element.  The content of an       *)
(* Expression is its text as the resolver reads it: the kind of marker it  *)
(* starts with, the loop variable and the dotted path.                     *)
(***************************************************************************)
NoContent == [k |-> "none", var |-> "", path |-> <<>>]
ForC(var, path) == [k |-> "for", var |-> var, path |-> path]
\* starts with "for " but is not of the form `for <var> in <path>`
ForBadC == [k |-> "forbad", var |-> "", path |-> <<>>]
EndForC == [k |-> "endfor", var |-> "", path |-> <<>>]
IfC(path) == [k |-> "if", var |-> "", path |-> path]
ElseIfC(path) == [k |-> "elseif", var |-> "", path |-> path]
ElseC == [k |-> "else", var |-> "", path |-> <<>>]
EndIfC == [k |-> "endif", var |-> "", path |-> <<>>]
\* any other expression text, such as `item.Name`
OtherC(path) == [k |-> "other", var |-> "", path |-> path]

Node(type, name, args, content, tagName, properties, kids, value) ==
    [type |-> type, name |-> name, args |-> args, content |-> content,
     tagName |-> tagName, properties |-> properties, kids |-> kids, value |-> value]

Program(body) == Node("Program", "", <<>>, NoContent, "", <<>>, body, Undef)
Directive(name, args) == Node("Directive", name, args, NoContent, "", <<>>, <<>>, Undef)
Element(tagName, properties, children) ==
    Node("Element", "", <<>>, NoContent, tagName, properties, children, Undef)
Text(value) == Node("Text", "", <<>>, NoContent, "", <<>>, <<>>, value)
Expression(content) == Node("Expression", "", <<>>, content, "", <<>>, <<>>, Undef)

Arg(key, value) == [key |-> key, value |-> value]
\* an argument of @props: a bare name
PropName(name) == [key |-> name]
Prop(key, value) == [key |-> key, value |-> value]

\* node.body || node.children is an array
HasKids(n) == n.type \in {"Program", "Element"}

(***************************************************************************)
(* The heap.  ToValue reads the tree below an address as a value (what     *)
(* JSON.stringify writes); Alloc builds a tree of fresh nodes from a value *)
(* (what JSON.parse, the parser or a loader returns).                      *)
(***************************************************************************)
RECURSIVE ToValue(_, _)
ToValue(h, a) ==
    [h[a] EXCEPT !.kids = [i \in 1..Len(h[a].kids) |-> ToValue(h, h[a].kids[i])]]

ToValues(h, as) == [i \in 1..Len(as) |-> ToValue(h, as[i])]

RECURSIVE Alloc(_, _), AllocSeq(_, _)
Alloc(h, tree) ==
    LET r == AllocSeq(h, tree.kids)
    IN [h |-> Append(r.h, [tree EXCEPT !.kids = r.as]), a |-> Len(r.h) + 1]

AllocSeq(h, trees) ==
    IF trees = <<>> THEN [h |-> h, as |-> <<>>]
    ELSE LET r1 == Alloc(h, Head(trees))
             r2 == AllocSeq(r1.h, Tail(trees))
         IN [h |-> r2.h, as |-> <<r1.a>> \o r2.as]

\* the addresses reachable from an address, itself included
RECURSIVE Reach(_, _)
Reach(h, a) ==
    {a} \cup UNION {Reach(h, h[a].kids[i]) : i \in 1..Len(h[a].kids)}

ReachAll(h, as) == UNION {Reach(h, as[i]) : i \in 1..Len(as)}

\* JSON.parse(JSON.stringify(x)) of one node: a tree of fresh nodes, equal in value
JsonClone(h, a) == Alloc(h, ToValue(h, a))

\* JSON.parse(JSON.stringify(xs)) of an array of nodes
JsonCloneSeq(h, as) == AllocSeq(h, ToValues(h, as))

\* array.splice(start, deleteCount, ...items), with 1-based start
\* a splice that puts the new items behind the rest of the list
Splice_AtEnd(s, start, deleteCount, items) ==
    SubSeq(s, 1, start - 1) \o SubSeq(s, start + deleteCount, Len(s)) \o items

Splice(s, start, deleteCount, items) ==
    SubSeq(s, 1, start - 1) \o items \o SubSeq(s, start + deleteCount, Len(s))

(***************************************************************************)
(* ComponentResolver: the marker searches.  Indexes are 1-based; 0 stands  *)
(* for the -1 of the source.  `nodes` is the sibling list as node records. *)
(***************************************************************************)
\* child.type === "Expression" && child.content?.startsWith("for ")
IsForMarker(n) == n.type = "Expression" /\ n.content.k \in {"for", "forbad"}

\* child.type === "Expression" && child.content?.startsWith("if ")
IsIfMarker(n) == n.type = "Expression" /\ n.content.k = "if"

\* a test that takes any closing marker for an `end for`
IsEndFor_AnyEnd(n) == n.type = "Expression" /\ n.content.k \in {"endfor", "endif"}

\* node?.type === "Expression" && node.content === "end for"
IsEndFor(n) == n.type = "Expression" /\ n.content.k = "endfor"

findEndForIndex(nodes, startIndex) ==
    LET found == {i \in (startIndex + 1)..Len(nodes) : IsEndFor(nodes[i])}
    IN IF found = {} THEN 0
       ELSE CHOOSE i \in found : \A j \in found : i <= j

\* a scan that does not count the nested `if`
NestedIfStep_Flat(i, startIndex, nestedIfCount) == nestedIfCount

\* the depth counted for a nested `if`
NestedIfStep(i, startIndex, nestedIfCount) ==
    IF i > startIndex THEN nestedIfCount + 1 ELSE nestedIfCount

RECURSIVE ScanIfBlock(_, _, _, _, _)
ScanIfBlock(nodes, startIndex, i, nestedIfCount, dividers) ==
    IF i > Len(nodes) THEN [endIfIndex |-> 0, dividers |-> dividers]
    ELSE LET node == nodes[i]
             k == node.content.k
         IN IF node.type # "Expression"
            THEN ScanIfBlock(nodes, startIndex, i + 1, nestedIfCount, dividers)
            ELSE IF k = "if"
            THEN ScanIfBlock(nodes, startIndex, i + 1,
                     NestedIfStep(i, startIndex, nestedIfCount),
                     IF i > startIndex THEN dividers
                     ELSE Append(dividers,
                              [type |-> "if", index |-> i, condition |-> node.content.path]))
            ELSE IF k = "elseif" /\ nestedIfCount = 0
            THEN ScanIfBlock(nodes, startIndex, i + 1, nestedIfCount,
                     Append(dividers,
                         [type |-> "else-if", index |-> i, condition |-> node.content.path]))
            ELSE IF k = "else" /\ nestedIfCount = 0
            THEN ScanIfBlock(nodes, startIndex, i + 1, nestedIfCount,
                     Append(dividers, [type |-> "else", index |-> i, condition |-> <<>>]))
            ELSE IF k = "endif"
            THEN IF nestedIfCount > 0
                 THEN ScanIfBlock(nodes, startIndex, i + 1, nestedIfCount - 1, dividers)
                 ELSE [endIfIndex |-> i, dividers |-> dividers]
            ELSE ScanIfBlock(nodes, startIndex, i + 1, nestedIfCount, dividers)

findEndIfBlock(nodes, startIndex) == ScanIfBlock(nodes, startIndex, startIndex, 0, <<>>)

(***************************************************************************)
(* ComponentResolver: conditions.                                          *)
(***************************************************************************)
\* a walk that always starts at the first segment
StartPartIndex_First(path, dataContext) == 1

\* the index the walk of a dotted path starts at: the first segment is
\* dropped when the path has several and the context has no such field
StartPartIndex(path, dataContext) ==
    IF Len(path) > 1 /\ Get(dataContext, path[1]) = Undef THEN 2 ELSE 1

evaluateCondition(conditionStr, dataContext) ==
    IF ~Truthy(dataContext) \/ conditionStr = <<>> THEN FALSE
    ELSE LET startPartIndex == StartPartIndex(conditionStr, dataContext)
             currentData == WalkPath(dataContext,
                               SubSeq(conditionStr, startPartIndex, Len(conditionStr)))
         IN Truthy(currentData)

\* whether divider k passes, no earlier divider having passed
ConditionPasses(divider, dataContext) ==
    IF divider.type = "else" THEN TRUE
    ELSE evaluateCondition(divider.condition, dataContext)

\* the first divider that passes, 0 when none does
PassingDividerIndex(dividers, dataContext) ==
    LET passing == {k \in 1..Len(dividers) : ConditionPasses(dividers[k], dataContext)}
    IN IF passing = {} THEN 0
       ELSE CHOOSE k \in passing : \A j \in passing : k <= j

\* a slice that runs to the `end if` whatever divider follows
KeptRange_ToEndIf(blockInfo, passingDividerIndex) ==
    [from |-> blockInfo.dividers[passingDividerIndex].index + 1,
     to |-> blockInfo.endIfIndex - 1]

\* nodes.slice(keepStart, keepEnd) of the passing divider, as 1-based bounds
KeptRange(blockInfo, passingDividerIndex) ==
    LET dividers == blockInfo.dividers
    IN [from |-> dividers[passingDividerIndex].index + 1,
        to |-> (IF passingDividerIndex < Len(dividers)
                THEN dividers[passingDividerIndex + 1].index
                ELSE blockInfo.endIfIndex) - 1]

\* `list` is any sequence parallel to the sibling list (its addresses, its
\* positions); the result is that sequence after the splice.
executeIfCondition(list, blockInfo, dataContext) ==
    LET dividers == blockInfo.dividers
        passingDividerIndex == PassingDividerIndex(dividers, dataContext)
        startIndex == dividers[1].index
        totalLength == blockInfo.endIfIndex - startIndex + 1
        keptNodes == IF passingDividerIndex # 0
                     THEN LET r == KeptRange(blockInfo, passingDividerIndex)
                          IN SubSeq(list, r.from, r.to)
                     ELSE <<>>
    IN Splice(list, startIndex, totalLength, keptNodes)

(***************************************************************************)
(* ComponentResolver: data binding.  A binding that reads a field of a     *)
(* null or undefined item raises a TypeError: Threw.                       *)
(***************************************************************************)
Threw == [t |-> "throw"]

\* one property value (section 1 of inlineDataBinding)
BindProperty(value, dataItem, loopVar, itemPropName) ==
    IF ~IsString(value) THEN value
    ELSE IF itemPropName # "" /\ value.t = "bind" /\ Len(value.v) = 2
            /\ value.v[1] = itemPropName
    THEN IF dataItem.t \in {"null", "undef"} THEN Threw
         ELSE LET actualData == Get(dataItem, value.v[2])
              IN IF actualData # Undef THEN actualData ELSE value
    ELSE IF Truthy(dataItem) /\ itemPropName = "" /\ value = Bind(<<loopVar>>)
    THEN dataItem
    ELSE value

\* the path a dotted binding reads in the item: the binding's path without
\* its head when the head is the loop variable or the prop alias
TargetPath(fullPath, loopVar, itemPropName) ==
    IF Len(fullPath) > 1 /\ fullPath[1] \in {loopVar, itemPropName}
    THEN Tail(fullPath)
    ELSE fullPath

\* what a dotted binding is replaced by: the item's field named by the first
\* segment of the target path
BoundValue(targetPath, dataItem) == Get(dataItem, targetPath[1])

\* the value of one Text child (section 3 of inlineDataBinding)
BindText(value, dataItem, loopVar, itemPropName) ==
    IF ~(IsString(value) /\ Truthy(dataItem)) THEN value
    ELSE IF value = Bind(<<loopVar>>) THEN dataItem
    ELSE IF value.t = "bind" /\ itemPropName # ""
    THEN LET actualData == BoundValue(TargetPath(value.v, loopVar, itemPropName), dataItem)
         IN IF actualData # Undef THEN actualData ELSE value
    ELSE value

BindProperties(properties, dataItem, loopVar, itemPropName) ==
    [i \in 1..Len(properties) |->
        [properties[i] EXCEPT
            !.value = BindProperty(properties[i].value, dataItem, loopVar, itemPropName)]]

PropertiesThrew(properties) ==
    \E i \in 1..Len(properties) : properties[i].value = Threw

\* the heap after the Text children among `kids` are bound
RECURSIVE BindTextChildren(_, _, _, _, _)
BindTextChildren(h, kids, dataItem, loopVar, itemPropName) ==
    IF kids = <<>> THEN h
    ELSE LET a == Head(kids)
             h1 == IF h[a].type = "Text"
                   THEN [h EXCEPT ![a].value =
                            BindText(h[a].value, dataItem, loopVar, itemPropName)]
                   ELSE h
         IN BindTextChildren(h1, Tail(kids), dataItem, loopVar, itemPropName)

\* Expression contents come from the parser stripped of their delimiters
\* and Elements carry no content, so section 2 (node.content) matches nothing.
RECURSIVE inlineDataBinding(_, _, _, _, _)
inlineDataBinding(h, nodes, dataItem, loopVar, itemPropName) ==
    IF nodes = <<>> THEN [h |-> h, threw |-> FALSE]
    ELSE LET a == Head(nodes)
             properties == BindProperties(h[a].properties, dataItem, loopVar, itemPropName)
         IN IF PropertiesThrew(properties) THEN [h |-> h, threw |-> TRUE]
            ELSE LET h1 == [h EXCEPT ![a].properties = properties]
                     r == IF HasKids(h1[a])
                          THEN inlineDataBinding(
                                   BindTextChildren(h1, h1[a].kids, dataItem, loopVar,
                                       itemPropName),
                                   h1[a].kids, dataItem, loopVar, itemPropName)
                          ELSE [h |-> h1, threw |-> FALSE]
                 IN IF r.threw THEN r
                    ELSE inlineDataBinding(r.h, Tail(nodes), dataItem, loopVar, itemPropName)

(***************************************************************************)
(* The files of a project, as the two loaders of main see them.  A path    *)
(* with no file makes the loader throw.  The data file holds the items the *)
(* compilation was started with.                                           *)
(***************************************************************************)
CardPath == "components/Card.uhmlx"
OuterPath == "components/Outer.uhmlx"
GonePath == "components/Gone.uhmlx"
DeepPath == "components/Deep.uhmlx"
ItemsPath == "data/items.json"
ListPath == "data/list.json"
NonePath == "data/none.json"
BtnStylePath == "styles/Btn.uhmls"
AbsentStylePath == "styles/Absent.uhmls"

\* tagName.startsWith("#") and tagName.substring(1)
RefName == ("#Card" :> "Card") @@ ("#Outer" :> "Outer") @@ ("#Gone" :> "Gone")
               @@ ("#Nope" :> "Nope") @@ ("#Deep" :> "Deep")
IsRef(tagName) == tagName \in DOMAIN RefName

\* components/Card.uhmlx
CardFile ==
    Program(<<
        Directive("@props", <<PropName("item")>>),
        Element("CardEl", <<Prop("Title", Bind(<<"item", "Name">>))>>, <<
            Text(Bind(<<"item", "Name">>)),
            Expression(IfC(<<"item", "flag">>)),
            Element("On", <<>>, <<>>),
            Expression(ElseC),
            Element("Off", <<>>, <<>>),
            Expression(EndIfC)>>)>>)

\* components/Outer.uhmlx: a component whose top level is a loop over a component
OuterFile ==
    Program(<<
        Directive("@props", <<PropName("item")>>),
        Expression(ForC("c", <<"items">>)),
        Element("#Card", <<Prop("item", Bind(<<"c">>))>>, <<>>),
        Expression(EndForC)>>)

\* components/Deep.uhmlx: texts bound to a field of a field and to a field
DeepFile ==
    Program(<<
        Directive("@props", <<PropName("item")>>),
        Element("DeepEl", <<>>, <<
            Text(Bind(<<"item", "sub", "flag">>)),
            Text(Bind(<<"item", "Name">>)),
            Element("local:Button", <<Prop("Style", Res("Big"))>>, <<>>)>>)>>)

ComponentFiles == (CardPath :> CardFile) @@ (OuterPath :> OuterFile) @@ (DeepPath :> DeepFile)

\* externalComponentLoader: the parsed file, wrapped in an array
externalComponentLoader(astPath) ==
    IF astPath \in DOMAIN ComponentFiles
    THEN [threw |-> FALSE, ast |-> <<ComponentFiles[astPath]>>]
    ELSE [threw |-> TRUE, ast |-> <<>>]

\* JSON.parse of the data files: one holds an object, the other a bare array
DataFiles(items) ==
    (ItemsPath :> Obj([items |-> Arr(items), title |-> Str("t")]))
        @@ (ListPath :> Arr(items))

\* dataPath.trim().split("/").pop()?.replace(".json", "")
FileNameKey == (ItemsPath :> "items") @@ (ListPath :> "list") @@ (NonePath :> "none")

\* externalDataLoader: a bare array is wrapped under the file's base name
externalDataLoader(dataPath, items) ==
    IF dataPath \in DOMAIN DataFiles(items)
    THEN LET parsedData == DataFiles(items)[dataPath]
         IN [threw |-> FALSE,
             data |-> IF IsArray(parsedData)
                      THEN Obj([k \in {FileNameKey[dataPath]} |-> parsedData])
                      ELSE parsedData]
    ELSE [threw |-> TRUE, data |-> Undef]

(***************************************************************************)
(* ComponentResolver: the cached loaders.  R is the resolver's state as a  *)
(* record: heap, docs (the data documents the loader has returned, each an *)
(* object of its own, named by its index), the four maps, and what the     *)
(* model observes of the calls: retrievals and loaderCalls.                *)
(***************************************************************************)
\* the copy of a loaded AST that the cache keeps
CacheCopy(h, ast) == JsonCloneSeq(h, ast)

loadComponentAst(R, path) ==
    IF Has(R.componentAstCache, path)
    THEN LET c == JsonCloneSeq(R.heap, R.componentAstCache[path])
         IN [R EXCEPT !.heap = c.h, !.ret = c.as,
                      !.retrievals = Append(@, [cache |-> "component", path |-> path,
                                                ret |-> c.as])]
    ELSE LET loaded == externalComponentLoader(path)
             calls == Append(R.loaderCalls, [loader |-> "component", path |-> path])
         IN IF loaded.threw THEN [R EXCEPT !.threw = TRUE, !.loaderCalls = calls]
            ELSE LET ast == AllocSeq(R.heap, loaded.ast)
                     c == CacheCopy(ast.h, ast.as)
                 IN [R EXCEPT !.heap = c.h, !.ret = ast.as, !.loaderCalls = calls,
                              !.componentAstCache = Put(@, path, c.as),
                              !.retrievals = Append(@, [cache |-> "component",
                                                        path |-> path, ret |-> ast.as])]

\* a loader that keeps nothing
CacheData_Forgetful(dataCache, path, ref) == dataCache

\* this.dataCache.set(path, data)
CacheData(dataCache, path, ref) == Put(dataCache, path, ref)

\* what loadData hands out for a cached document: the document's name
CachedData(R, path) == [docs |-> R.docs, ref |-> R.dataCache[path]]

loadData(R, path, items) ==
    IF Has(R.dataCache, path)
    THEN LET c == CachedData(R, path)
         IN [R EXCEPT !.docs = c.docs, !.ret = c.ref,
                      !.retrievals = Append(@, [cache |-> "data", path |-> path,
                                                ret |-> c.ref])]
    ELSE LET loaded == externalDataLoader(path, items)
             calls == Append(R.loaderCalls, [loader |-> "data", path |-> path])
         IN IF loaded.threw THEN [R EXCEPT !.threw = TRUE, !.loaderCalls = calls]
            ELSE LET ref == Len(R.docs) + 1
                 IN [R EXCEPT !.docs = Append(@, loaded.data), !.ret = ref,
                              !.loaderCalls = calls,
                              !.dataCache = CacheData(@, path, ref),
                              !.retrievals = Append(@, [cache |-> "data", path |-> path,
                                                        ret |-> ref])]

(***************************************************************************)
(* ComponentResolver: processDirective.                                    *)
(***************************************************************************)
RECURSIVE UseComponents(_, _)
UseComponents(componentMap, args) ==
    IF args = <<>> THEN componentMap
    ELSE UseComponents(Put(componentMap, Head(args).key, Head(args).value), Tail(args))

RECURSIVE UseData(_, _, _)
UseData(R, args, items) ==
    IF args = <<>> THEN R
    ELSE LET arg == Head(args)
             L == loadData(R, arg.value, items)
         IN IF L.threw THEN L
            ELSE LET dataArray == OptGet(L.docs[L.ret], arg.key)
                     R1 == IF Truthy(dataArray) /\ IsArray(dataArray)
                           THEN [L EXCEPT !.dataMap = Put(@, arg.key, dataArray)]
                           ELSE L
                 IN UseData(R1, Tail(args), items)

processDirective(R, node, items) ==
    IF node.name = "@useComponents"
    THEN [R EXCEPT !.componentMap = UseComponents(@, node.args)]
    ELSE IF node.name = "@useData"
    THEN UseData(R, node.args, items)
    ELSE R

(***************************************************************************)
(* ComponentResolver: executeLoopExpansion, up to the decision to expand.  *)
(***************************************************************************)
\* this.dataMap.get(dataVar): datasets are registered under one-segment keys
DataMapGet(dataMap, dataVar) ==
    IF Len(dataVar) = 1 /\ Has(dataMap, dataVar[1]) THEN dataMap[dataVar[1]] ELSE Undef

\* the array found through the data context, Undef when there is none
ContextArray(dataVar, dataContext) ==
    LET effectiveDataVar ==
            IF Len(dataVar) > 1 /\ Get(dataContext, dataVar[1]) = Undef
            THEN Tail(dataVar) ELSE dataVar
        currentData == WalkPath(dataContext, effectiveDataVar)
    IN IF currentData # Undef /\ IsArray(currentData) THEN currentData ELSE Undef

\* a search that asks the data context before the declared datasets
LoopArray_ContextFirst(dataMap, dataVar, dataContext) ==
    LET found == IF Truthy(dataContext) THEN ContextArray(dataVar, dataContext) ELSE Undef
    IN IF found # Undef THEN found ELSE DataMapGet(dataMap, dataVar)

\* the array the loop iterates: the declared dataset first
LoopArray(dataMap, dataVar, dataContext) ==
    LET declared == DataMapGet(dataMap, dataVar)
    IN IF declared = Undef /\ Truthy(dataContext)
       THEN ContextArray(dataVar, dataContext)
       ELSE declared

\* Object.keys(componentNode.properties || {})[0], "" when there is none
FirstPropertyName(componentNode) ==
    IF componentNode.properties = <<>> THEN "" ELSE componentNode.properties[1].key

\* the checks of executeLoopExpansion before it builds anything
LoopPlan(nodes, startIndex, dataContext, dataMap, componentMap) ==
    LET startNode == nodes[startIndex]
        skip(why) == [outcome |-> why, loopVar |-> "", dataArray |-> <<>>,
                      componentPath |-> "", itemPropName |-> ""]
    IN IF startNode.content.k # "for" THEN skip("header")
       ELSE IF startIndex + 1 > Len(nodes) \/ nodes[startIndex + 1].type # "Element"
       THEN skip("body")
       ELSE LET componentNode == nodes[startIndex + 1]
                dataArray == LoopArray(dataMap, startNode.content.path, dataContext)
            IN IF ~IsArray(dataArray) THEN skip("array")
               ELSE IF IsRef(componentNode.tagName)
               THEN IF ~Has(componentMap, RefName[componentNode.tagName])
                    THEN [skip("undeclared") EXCEPT !.dataArray = dataArray.v]
                    ELSE [outcome |-> "component", loopVar |-> startNode.content.var,
                          dataArray |-> dataArray.v,
                          componentPath |-> componentMap[RefName[componentNode.tagName]],
                          itemPropName |-> FirstPropertyName(componentNode)]
               ELSE [outcome |-> "inline", loopVar |-> startNode.content.var,
                     dataArray |-> dataArray.v, componentPath |-> "",
                     itemPropName |-> ""]

(***************************************************************************)
(* The compiled units of the model: the parsed main file and the items of  *)
(* the data file.                                                          *)
(***************************************************************************)
ItemA == Obj([Name |-> Str("n1"), flag |-> Bool(TRUE), alt |-> Bool(FALSE),
              tags |-> Arr(<<Str("x"), Str("y")>>),
              zero |-> Num(0), empty |-> Str(""), nil |-> Null,
              items |-> Arr(<<Str("own")>>),
              sub |-> Obj([flag |-> Bool(TRUE), tags |-> Arr(<<Str("s")>>)])])
ItemB == Obj([Name |-> Str("n2"), flag |-> Bool(FALSE), alt |-> Bool(TRUE),
              tags |-> Arr(<<>>)])
ItemP == Str("p")
ItemKinds == {ItemA, ItemB, ItemP, Null}

ItemArrays == UNION {[1..n -> ItemKinds] : n \in 0..MaxItems}

El(tagName) == Element(tagName, <<>>, <<>>)
ForItems == Expression(ForC("item", <<"items">>))
EndFor == Expression(EndForC)
EndIf == Expression(EndIfC)
Else == Expression(ElseC)
Leaf == Element("Leaf", <<Prop("v", Bind(<<"item">>))>>,
            <<Text(Bind(<<"item">>)), Text(Str("plain"))>>)

UseComponentsAll ==
    Directive("@useComponents",
        <<Arg("Card", CardPath), Arg("Outer", OuterPath), Arg("Gone", GonePath),
          Arg("Deep", DeepPath)>>)
UseItems == Directive("@useData", <<Arg("items", ItemsPath)>>)
Declared == <<UseComponentsAll, UseItems>>

\* a conditional chain over the fields of the current item
IfChain ==
    <<Expression(IfC(<<"item", "flag">>)), El("A"),
      Expression(ElseIfC(<<"alt">>)), El("B"),
      Else, El("C"), EndIf>>

\* a chain whose conditions reach falsy values, stop on the way, start at a
\* field of the item, at the loop variable, or name one absent field
ProbeChain ==
    <<Expression(IfC(<<"item", "zero">>)),
      Expression(ElseIfC(<<"item", "nil", "x">>)),
      Expression(ElseIfC(<<"sub", "flag">>)), El("A"),
      Expression(ElseIfC(<<"item", "sub", "flag">>)),
      Expression(ElseIfC(<<"tags">>)), El("B"),
      EndIf>>

\* more of them: the empty string, null, a missing segment, an absent field
ProbeChain2 ==
    <<Expression(IfC(<<"item", "empty">>)),
      Expression(ElseIfC(<<"item", "nil">>)),
      Expression(ElseIfC(<<"item", "missing", "x">>)),
      Expression(ElseIfC(<<"missing">>)),
      Expression(ElseIfC(<<"Name">>)), El("A"),
      EndIf>>

\* a conditional in the first branch of a conditional
NestedIf ==
    <<Expression(IfC(<<"item", "flag">>)),
          Expression(IfC(<<"item", "alt">>)), El("A"), Else, El("B"), EndIf,
          El("C"),
      Expression(ElseIfC(<<"item", "alt">>)), El("D"),
      EndIf, Text(Bind(<<"item", "Name">>))>>

Bodies == {
    \* no directive, no expression
    <<Element("Grid", <<Prop("w", Num(1))>>, <<El("A"), Text(Str("plain"))>>)>>,
    <<Element("Grid", <<>>,
          <<Element("Row", <<Prop("on", Bool(TRUE))>>, <<Text(Str("plain"))>>)>>),
      Text(Str("plain"))>>,
    \* an empty file; bindings and a component reference outside any loop
    <<>>,
    <<Element("Panel", <<Prop("t", Bind(<<"item", "Name">>))>>,
          <<El("#Card"), Text(Bind(<<"item">>))>>)>>,
    \* an inline loop in an element
    Declared \o <<Element("Container", <<>>, <<El("A"), ForItems, Leaf, EndFor, El("B")>>)>>,
    \* an inline loop whose body binds a field of the item in a property
    Declared \o <<ForItems, Element("Item", <<Prop("v", Bind(<<"item", "Name">>))>>, <<>>),
                  EndFor>>,
    \* an inline loop whose body holds a conditional chain
    Declared \o <<ForItems, Element("Box", <<>>, IfChain), EndFor>>,
    Declared \o <<ForItems, Element("Box", <<>>, ProbeChain), EndFor>>,
    Declared \o <<ForItems, Element("Box", <<>>, ProbeChain2), EndFor>>,
    \* an inline loop whose body holds a conditional in a conditional
    Declared \o <<ForItems, Element("Box", <<>>, NestedIf), EndFor>>,
    \* a loop over a component
    Declared \o <<Element("Container", <<>>,
        <<ForItems, Element("#Card", <<Prop("item", Bind(<<"item">>))>>, <<>>), EndFor>>)>>,
    \* loops over a component whose reference names its property otherwise,
    \* or has no property
    Declared \o <<ForItems, Element("#Card", <<Prop("data", Bind(<<"item">>))>>, <<>>), EndFor>>,
    Declared \o <<ForItems, El("#Card"), EndFor>>,
    \* texts bound to fields of the item, in a component and in an inline body
    Declared \o <<ForItems, Element("#Deep", <<Prop("item", Bind(<<"item">>))>>, <<>>), EndFor>>,
    Declared \o <<ForItems,
        Element("Row", <<>>,
            <<Text(Bind(<<"item", "Name">>)), Text(Bind(<<"item", "sub", "flag">>))>>),
        EndFor>>,
    \* a loop over a component that loops over a component
    Declared \o <<Element("Container", <<>>,
        <<ForItems, Element("#Outer", <<Prop("item", Bind(<<"item">>))>>, <<>>), EndFor>>)>>,
    \* a nested loop over a field of the item
    Declared \o <<ForItems,
        Element("Box", <<>>,
            <<Expression(ForC("t", <<"item", "tags">>)),
              Element("Tag", <<Prop("v", Bind(<<"t">>))>>, <<>>), EndFor>>),
        EndFor>>,
    \* nested loops over the declared dataset (the item has a field of that
    \* name), over a field of a field of the item, over a field named alone
    Declared \o <<ForItems,
        Element("Box", <<>>,
            <<Expression(ForC("t", <<"items">>)),
              Element("Tag", <<Prop("v", Bind(<<"t">>))>>, <<>>), EndFor>>),
        EndFor>>,
    Declared \o <<ForItems,
        Element("Box", <<>>,
            <<Expression(ForC("t", <<"sub", "tags">>)),
              Element("Tag", <<Prop("v", Bind(<<"t">>))>>, <<>>), EndFor,
              Expression(ForC("u", <<"tags">>)),
              Element("Tag", <<Prop("v", Bind(<<"u">>))>>, <<>>), EndFor>>),
        EndFor>>,
    \* loops that cannot be expanded
    Declared \o <<Expression(ForC("x", <<"missing">>)), Leaf, EndFor, El("A")>>,
    Declared \o <<ForItems, Text(Str("plain")), EndFor, El("A")>>,
    Declared \o <<Expression(ForBadC), Leaf, EndFor, El("A")>>,
    Declared \o <<ForItems, El("#Nope"), EndFor, El("A")>>,
    <<ForItems, Leaf, EndFor, UseItems>>,
    \* loaders that fail
    Declared \o <<ForItems, El("#Gone"), EndFor>>,
    <<Directive("@useData", <<Arg("none", NonePath)>>), El("A")>>,
    \* markers without their terminator
    Declared \o <<El("A"), ForItems, Leaf>>,
    Declared \o <<Expression(IfC(<<"flag">>)), El("A"), Else, El("B")>>,
    \* a marker without its terminator, then a block that has its own
    Declared \o <<Expression(IfC(<<"flag">>)), El("A"), ForItems, Leaf, EndFor, El("B")>>,
    Declared \o <<El("A"), ForItems, Leaf, Expression(IfC(<<"flag">>)), El("B"), EndIf>>,
    \* a conditional outside any loop, then a sibling
    Declared \o <<Expression(IfC(<<"flag">>)), El("A"), Else, El("B"), EndIf, El("C")>>,
    \* a conditional outside any loop on the declared dataset, without `else`
    Declared \o <<Expression(IfC(<<"items">>)), El("A"),
                  Expression(ElseIfC(<<"items", "length">>)), El("B"), EndIf, El("C")>>,
    \* two control blocks in one list; nodes after the loop body
    Declared \o <<ForItems, Leaf, El("A"), EndFor,
                  Expression(IfC(<<"flag">>)), El("B"), EndIf>>,
    \* the same data file declared twice, a key that is no array, a bare-array file
    <<Directive("@useData",
          <<Arg("items", ItemsPath), Arg("title", ItemsPath), Arg("list", ListPath)>>),
      Expression(ForC("item", <<"list">>)), Leaf, EndFor>>,
    \* style references in a component body, in a directive and in an element
    Declared \o <<Directive("@useStyle",
                      <<Arg("Btn", BtnStylePath), Arg("Absent", AbsentStylePath)>>),
                  ForItems, Element("#Deep", <<Prop("item", Bind(<<"item">>))>>, <<>>), EndFor,
                  Element("local:Button", <<Prop("Style", Res("Small"))>>, <<>>)>>,
    \* an expression that is no marker, and only directives
    Declared \o <<Expression(OtherC(<<"item", "Name">>)), El("A")>>,
    Declared
}

\* data/StaticStrings.xaml
StaticStrings == Str("<s:String />")

\* a compilation whose source parses, with all its assets in place
Unit(body, items) ==
    [tree |-> Program(body), items |-> items, fault |-> "none",
     strings |-> StaticStrings, styles |-> "ok"]

\* a main file that uses style fragments and the static strings
Styled ==
    <<Directive("@useStyle", <<Arg("Btn", BtnStylePath), Arg("Absent", AbsentStylePath),
                               Arg("Other", CardPath)>>),
      El("#__Style__"),
      Element("Grid", <<>>,
          <<Element("local:Button", <<Prop("Style", Res("Big")), Prop("w", Num(1))>>, <<>>),
            Element("local:Button", <<Prop("Style", Res("Small"))>>, <<El("#__Style__")>>)>>),
      El("#__StaticString")>>

Inputs ==
    {Unit(body, items) : body \in Bodies, items \in ItemArrays}
    \cup {[Unit(<<El("A")>>, <<>>) EXCEPT !.fault = f] : f \in {"lexical", "grammar"}}
    \cup {[Unit(<<El("A"), El("#__StaticString")>>, <<>>) EXCEPT !.strings = Undef]}
    \cup {[Unit(Styled, <<>>) EXCEPT !.styles = st] : st \in {"ok", "broken"}}

(***************************************************************************)
(* State.                                                                  *)
(***************************************************************************)
VARIABLES
    input,              \* the compiled unit: the parsed main file and the data items
    phase,              \* how far main has come
    heap,               \* the AST nodes
    initialAst,         \* the address of the parser's Program
    finalAst,           \* the address of the tree resolve works on (0 before)
    stack,              \* the calls of traverseAndProcessDirectives and of
                        \* executeLoopExpansion that have not returned
    componentMap, dataMap, componentAstCache, dataCache,
    docs,               \* the documents the data loader has returned
    retrievals,         \* what loadComponentAst and loadData have returned
    loaderCalls,        \* the calls of the two injected loaders
    skips,              \* the warnings of loops left unexpanded
    lastSplice,         \* the last rewrite of a sibling list
    rootNode,           \* the children of the Root handed to the generator
    xaml,               \* the generated text, line by line
    styleFileNames,     \* the style identifiers of step 4, in the order found
    styleNodes,         \* the addresses of the style fragments of step 5
    written,            \* the files main has written
    stages,             \* the stages main has entered, in order
    source,             \* the text handed to new UhmlxParser, character by character
    pos,                \* Lexer.pos
    tokens,             \* the tokens pushed so far
    scans,              \* the iterations of the lexer's loop so far
    front,              \* how far lexing and parsing have come
    current,            \* UhmlxParser.current
    program,            \* the Program parse has returned
    markup              \* the text generated from the Program, line by line

resolverVars == <<componentMap, dataMap, componentAstCache, dataCache, docs,
                  retrievals, loaderCalls>>
styleVars == <<styleFileNames, styleNodes>>
mainVars == <<input, phase, heap, initialAst, finalAst, stack, resolverVars, skips,
              lastSplice, rootNode, xaml, styleVars, written, stages>>
frontVars == <<source, pos, tokens, scans, front, current, program, markup>>
vars == <<mainVars, frontVars>>

\* no text is being lexed
FrontIdle ==
    /\ source = <<>>
    /\ pos = 0
    /\ tokens = <<>>
    /\ scans = 0
    /\ front = "idle"
    /\ current = 0
    /\ program = Program(<<>>)
    /\ markup = <<>>

NoSplice == [op |-> "none"]

\* main is entered; the resolver as its constructor will leave it
Init ==
    /\ input \in Inputs
    /\ phase = "start"
    /\ heap = <<>>
    /\ initialAst = 0
    /\ styleFileNames = <<>>
    /\ styleNodes = <<>>
    /\ written = <<>>
    /\ stages = <<>>
    /\ finalAst = 0
    /\ stack = <<>>
    /\ componentMap = EmptyMap
    /\ dataMap = EmptyMap
    /\ componentAstCache = EmptyMap
    /\ dataCache = EmptyMap
    /\ docs = <<>>
    /\ retrievals = <<>>
    /\ loaderCalls = <<>>
    /\ skips = 0
    /\ lastSplice = NoSplice
    /\ rootNode = <<>>
    /\ xaml = <<>>
    /\ FrontIdle

\* a parser that goes on with what it has after an error
ParseOutcome_Recovering(fault) == "parsed"

\* new UhmlxParser(content).parse() throws on a lexical or a grammar error
ParseOutcome(fault) == IF fault = "none" THEN "parsed" ELSE "failed"

\* step 1 of main
uhmlxToAst ==
    /\ phase = "start"
    /\ stages' = Append(stages, "parse")
    /\ phase' = ParseOutcome(input.fault)
    /\ IF phase' = "parsed"
       THEN LET r == Alloc(<<>>, input.tree)
            IN heap' = r.h /\ initialAst' = r.a
       ELSE UNCHANGED <<heap, initialAst>>
    /\ UNCHANGED <<input, frontVars, finalAst, stack, resolverVars, skips, lastSplice, rootNode, xaml,
                   styleVars, written>>

(***************************************************************************)
(* ComponentResolver.resolve and the walk.                                 *)
(***************************************************************************)
\* a walk that takes an item for the context it was not given
TravFrame_Ambient(node, dataContext) ==
    [kind |-> "trav", node |-> node, i |-> 1,
     dataContext |-> IF dataContext = Undef THEN ItemA ELSE dataContext, seen |-> {}]

TravFrame(node, dataContext) ==
    [kind |-> "trav", node |-> node, i |-> 1, dataContext |-> dataContext, seen |-> {}]

\* resolve working on its argument itself
ResolveCopy_InPlace(h, ast) == [h |-> h, a |-> ast]

\* resolve building a new Program without copying the body
ResolveCopy_EmptyBody(h, ast) == Alloc(h, [ToValue(h, ast) EXCEPT !.kids = <<>>])

\* const resolvedAst = JSON.parse(JSON.stringify(ast))
ResolveCopy(h, ast) == JsonClone(h, ast)

resolve ==
    /\ phase = "parsed"
    /\ LET r == ResolveCopy(heap, initialAst)
       IN /\ heap' = r.h
          /\ finalAst' = r.a
          /\ stack' = <<TravFrame(r.a, Undef)>>
    /\ phase' = "resolving"
    /\ stages' = Append(stages, "resolve")
    /\ UNCHANGED <<styleVars, written, input, frontVars, initialAst, resolverVars, skips, lastSplice, rootNode, xaml>>

Top == stack[Len(stack)]
Below == SubSeq(stack, 1, Len(stack) - 1)
\* the sibling list of the running call, as addresses and as node records
Children == heap[Top.node].kids
ChildNodes == [i \in 1..Len(Children) |-> heap[Children[i]]]
Child == heap[Children[Top.i]]

Walking == phase = "resolving" /\ stack # <<>> /\ Top.kind = "trav"
AtChild == Walking /\ HasKids(heap[Top.node]) /\ Top.i <= Len(Children)

\* the state of the resolver as the record the loaders work on
ResolverState ==
    [heap |-> heap, docs |-> docs, componentMap |-> componentMap, dataMap |-> dataMap,
     componentAstCache |-> componentAstCache, dataCache |-> dataCache,
     retrievals |-> retrievals, loaderCalls |-> loaderCalls, threw |-> FALSE, ret |-> 0]

SetResolverState(R) ==
    /\ heap' = R.heap
    /\ docs' = R.docs
    /\ componentMap' = R.componentMap
    /\ dataMap' = R.dataMap
    /\ componentAstCache' = R.componentAstCache
    /\ dataCache' = R.dataCache
    /\ retrievals' = R.retrievals
    /\ loaderCalls' = R.loaderCalls

\* an error thrown out of resolve is caught by main: the compilation has failed
Fail == phase' = "failed" /\ stack' = <<>>

\* executeLoopExpansion left by an exception: the sibling list as it stays
Thrown(why, list, startIndex, dataArray) ==
    [op |-> "throw", why |-> why, list |-> list, startIndex |-> startIndex,
     n |-> Len(dataArray), before |-> heap[list].kids, after |-> heap[list].kids]

\* const child = children[i]: the running call has read the child under the scan
Examined == [Top EXCEPT !.seen = @ \cup {Children[Top.i]}]

\* the running call goes on with the next child
Advance == stack' = Below \o <<[Examined EXCEPT !.i = @ + 1]>>

\* a scan that goes on behind the index of the marker
ResumeIndex_Next(i) == i + 1

\* i--; continue: with the i++ of the for statement the scan goes on at the
\* index of the marker
ResumeIndex(i) == (i - 1) + 1

\* traverseAndProcessDirectives(child, dataContext), the running call going on
\* with the next child once it has returned; a child with no child array
\* returns at once
Recurse(child) ==
    IF HasKids(heap[child])
    THEN stack' = Below \o <<[Examined EXCEPT !.i = @ + 1], TravFrame(child, Top.dataContext)>>
    ELSE Advance

\* the loop over the children has ended, or there is no child array
traverseReturn ==
    /\ Walking
    /\ ~AtChild
    /\ stack' = Below
    /\ phase' = IF Below = <<>> THEN "resolved" ELSE phase
    /\ UNCHANGED <<styleVars, written, stages, input, frontVars, heap, initialAst, finalAst, resolverVars, skips, lastSplice, rootNode, xaml>>

traverseDirective ==
    /\ AtChild
    /\ Child.type = "Directive"
    /\ LET R == processDirective(ResolverState, Child, input.items)
       IN /\ SetResolverState(R)
          /\ IF R.threw THEN Fail ELSE Advance /\ phase' = phase
    /\ UNCHANGED <<styleVars, written, stages, input, frontVars, initialAst, finalAst, skips, lastSplice, rootNode, xaml>>

\* the `for` marker under the scan has an `end for` after it
AtLoop == AtChild /\ IsForMarker(Child) /\ findEndForIndex(ChildNodes, Top.i) # 0
Plan == LoopPlan(ChildNodes, Top.i, Top.dataContext, dataMap, componentMap)

\* the `if` marker under the scan has its `end if`
AtIf == AtChild /\ IsIfMarker(Child) /\ findEndIfBlock(ChildNodes, Top.i).endIfIndex # 0

\* line 87: any other child, an unterminated marker included
traverseChild ==
    /\ AtChild
    /\ Child.type # "Directive"
    /\ ~AtLoop
    /\ ~AtIf
    /\ Recurse(Children[Top.i])
    /\ UNCHANGED <<styleVars, written, stages, input, frontVars, phase, heap, initialAst, finalAst, resolverVars, skips,
                   lastSplice, rootNode, xaml>>

\* executeIfCondition, then i-- and continue: the scan stays at the same index
resolveIf ==
    /\ AtIf
    /\ LET blockInfo == findEndIfBlock(ChildNodes, Top.i)
           after == executeIfCondition(Children, blockInfo, Top.dataContext)
       IN /\ heap' = [heap EXCEPT ![Top.node].kids = after]
          /\ lastSplice' = [op |-> "if", list |-> Top.node, startIndex |-> Top.i,
                            endIndex |-> blockInfo.endIfIndex,
                            dataContext |-> Top.dataContext,
                            before |-> Children, after |-> after]
    /\ stack' = Below \o <<[Examined EXCEPT !.i = ResumeIndex(Top.i)]>>
    /\ UNCHANGED <<styleVars, written, stages, input, frontVars, phase, initialAst, finalAst, resolverVars, skips, rootNode, xaml>>

\* executeLoopExpansion returns without expanding, then i-- and continue
skipLoop ==
    /\ AtLoop
    /\ Plan.outcome \notin {"inline", "component"}
    /\ skips < MaxSkips
    /\ skips' = skips + 1
    /\ lastSplice' = [op |-> "skip", list |-> Top.node, startIndex |-> Top.i,
                      endIndex |-> findEndForIndex(ChildNodes, Top.i),
                      why |-> Plan.outcome, n |-> Len(Plan.dataArray),
                      before |-> Children, after |-> Children]
    /\ stack' = Below \o <<[Examined EXCEPT !.i = ResumeIndex(Top.i)]>>
    /\ UNCHANGED <<styleVars, written, stages, input, frontVars, phase, heap, initialAst, finalAst, resolverVars, rootNode, xaml>>

\* executeLoopExpansion up to the forEach: the template of the instances
expandLoop ==
    /\ AtLoop
    /\ Plan.outcome \in {"inline", "component"}
    /\ LET R == IF Plan.outcome = "component"
                THEN loadComponentAst(ResolverState, Plan.componentPath)
                ELSE LET c == JsonCloneSeq(heap, <<Children[Top.i + 1]>>)
                     IN [ResolverState EXCEPT !.heap = c.h, !.ret = c.as]
       IN /\ SetResolverState(R)
          /\ lastSplice' = IF R.threw THEN Thrown("loader", Top.node, Top.i, Plan.dataArray)
                            ELSE lastSplice
          /\ IF R.threw THEN Fail
             ELSE /\ phase' = phase
                  /\ stack' = Append(Below \o <<Examined>>,
                        [kind |-> "loop", list |-> Top.node, startIndex |-> Top.i,
                         endIndex |-> findEndForIndex(ChildNodes, Top.i),
                         componentAstSource |-> R.ret,
                         template |-> ToValues(R.heap, R.ret),
                         dataArray |-> Plan.dataArray,
                         loopVar |-> Plan.loopVar, itemPropName |-> Plan.itemPropName,
                         k |-> 0, componentInstance |-> <<>>, j |-> 1,
                         newNodes |-> <<>>, from |-> <<>>, done |-> <<>>])
    /\ UNCHANGED <<styleVars, written, stages, input, frontVars, initialAst, finalAst, skips, rootNode, xaml>>

Looping == phase = "resolving" /\ stack # <<>> /\ Top.kind = "loop"

\* newNodes.push(...componentInstance), with the item each node came from and
\* the value it had when its iteration ended
Pushed(f) ==
    [f EXCEPT !.newNodes = @ \o f.componentInstance,
              !.from = @ \o [x \in 1..Len(f.componentInstance) |-> f.k],
              !.done = @ \o ToValues(heap, f.componentInstance)]

\* every iteration working on the template itself
InstanceCopy_Shared(h, componentAstSource) == [h |-> h, as |-> componentAstSource]

\* const componentInstance = JSON.parse(JSON.stringify(componentAstSource))
InstanceCopy(h, componentAstSource) == JsonCloneSeq(h, componentAstSource)

\* the next item: a fresh instance, bound to the item
loopItem ==
    /\ Looping
    /\ Top.j > Len(Top.componentInstance)
    /\ Top.k < Len(Top.dataArray)
    /\ LET c == InstanceCopy(heap, Top.componentAstSource)
           dataItem == Top.dataArray[Top.k + 1]
           b == inlineDataBinding(c.h, c.as, dataItem, Top.loopVar, Top.itemPropName)
       IN IF b.threw
          THEN /\ Fail
               /\ heap' = c.h
               /\ lastSplice' = Thrown("binding", Top.list, Top.startIndex, Top.dataArray)
          ELSE /\ heap' = b.h
               /\ phase' = phase
               /\ stack' = Below \o <<[Pushed(Top) EXCEPT !.k = @ + 1,
                                           !.componentInstance = c.as, !.j = 1]>>
               /\ lastSplice' = lastSplice
    /\ UNCHANGED <<styleVars, written, stages, input, frontVars, initialAst, finalAst, resolverVars, skips, rootNode, xaml>>

\* this.traverseAndProcessDirectives(instanceNode, dataItem)
loopRecurse ==
    /\ Looping
    /\ Top.j <= Len(Top.componentInstance)
    /\ LET instanceNode == Top.componentInstance[Top.j]
           dataItem == Top.dataArray[Top.k]
       IN stack' = Below \o <<[Top EXCEPT !.j = @ + 1]>>
                     \o (IF HasKids(heap[instanceNode])
                         THEN <<TravFrame(instanceNode, dataItem)>> ELSE <<>>)
    /\ UNCHANGED <<styleVars, written, stages, input, frontVars, phase, heap, initialAst, finalAst, resolverVars, skips,
                   lastSplice, rootNode, xaml>>

\* a count that leaves the `end for` in the list
DeleteCount_WithoutEndFor(startIndex, endIndex) == endIndex - startIndex

\* endIndex - startIndex + 1
DeleteCount(startIndex, endIndex) == endIndex - startIndex + 1

\* nodes.splice(startIndex, endIndex - startIndex + 1, ...newNodes), and the return
loopSplice ==
    /\ Looping
    /\ Top.j > Len(Top.componentInstance)
    /\ Top.k = Len(Top.dataArray)
    /\ LET f == Pushed(Top)
           before == heap[f.list].kids
           after == Splice(before, f.startIndex,
                        DeleteCount(f.startIndex, f.endIndex), f.newNodes)
       IN /\ heap' = [heap EXCEPT ![f.list].kids = after]
          /\ lastSplice' = [op |-> "loop", list |-> f.list, startIndex |-> f.startIndex,
                            endIndex |-> f.endIndex, n |-> Len(f.dataArray),
                            loopVar |-> f.loopVar, dataArray |-> f.dataArray,
                            template |-> f.template, done |-> f.done,
                            from |-> f.from, before |-> before, after |-> after]
    /\ stack' = SubSeq(Below, 1, Len(Below) - 1)
                    \o <<[Below[Len(Below)] EXCEPT !.i = ResumeIndex(Top.startIndex)]>>
    /\ UNCHANGED <<styleVars, written, stages, input, frontVars, phase, initialAst, finalAst, resolverVars, skips, rootNode, xaml>>

(***************************************************************************)
(* main: the style fragments (steps 4 to 6).  A style identifier is the    *)
(* pair of the element's tag, colons turned into dashes, and the resource  *)
(* key, or a bare file name with an empty tag.                             *)
(***************************************************************************)
StyleName(tag, key) == [tag |-> tag, key |-> key]

\* tagName?.replace(/:/g, "-") || "UnknownElement"
StyleTag(tagName) ==
    CASE tagName = "" -> "UnknownElement"
      [] tagName = "local:Button" -> "local-Button"
      [] OTHER -> tagName

\* value.startsWith("styles/"), then the value without the prefix and without
\* the suffix .uhmls
StyleKeyOfPath == (BtnStylePath :> "Btn") @@ (AbsentStylePath :> "Absent")

\* styles/local-Button.Big.uhmls and styles/Btn.uhmls as the parser gives them
BigStyleFile ==
    Program(<<Element("Style", <<Prop("TargetType", Str("Button"))>>, <<>>)>>)
BtnStyleFile ==
    Program(<<Element("Style", <<Prop("x:Key", Str("Btn"))>>, <<El("Setter")>>),
              El("Unused")>>)

\* the files of the styles directory: whether each parses, and its tree
StyleFiles(styles) ==
    (StyleName("local-Button", "Big") :> [parses |-> TRUE, ast |-> BigStyleFile])
    @@ (StyleName("", "Btn") :> [parses |-> styles # "broken", ast |-> BtnStyleFile])

\* if (fs.existsSync(expectedFilePath)) results.add(name): a Set keeps the
\* order of insertion
AddStyle(results, name, stylesDir) ==
    IF name \in stylesDir /\ \A k \in 1..Len(results) : results[k] # name
    THEN Append(results, name) ELSE results

\* part 1: the properties holding `StaticResource <key>`
RECURSIVE StylesOfProperties(_, _, _, _)
StylesOfProperties(tag, properties, results, stylesDir) ==
    IF properties = <<>> THEN results
    ELSE LET propValue == Head(properties).value
             r == IF propValue.t = "res"
                  THEN AddStyle(results, StyleName(tag, propValue.v), stylesDir)
                  ELSE results
         IN StylesOfProperties(tag, Tail(properties), r, stylesDir)

\* part 2: the arguments of @useStyle whose value starts with styles/
RECURSIVE StylesOfArgs(_, _, _)
StylesOfArgs(args, results, stylesDir) ==
    IF args = <<>> THEN results
    ELSE LET stylePathValue == Head(args).value
             r == IF stylePathValue \in DOMAIN StyleKeyOfPath
                  THEN AddStyle(results, StyleName("", StyleKeyOfPath[stylePathValue]),
                           stylesDir)
                  ELSE results
         IN StylesOfArgs(Tail(args), r, stylesDir)

\* `node` is the tree as a value, `results` the set so far
RECURSIVE findStaticResourceStyles(_, _, _), FindStylesInEach(_, _, _)
\* a walk that goes into the first child only
FindStylesInEach_FirstOnly(children, results, stylesDir) ==
    IF children = <<>> THEN results
    ELSE findStaticResourceStyles(Head(children), results, stylesDir)

FindStylesInEach(children, results, stylesDir) ==
    IF children = <<>> THEN results
    ELSE FindStylesInEach(Tail(children),
             findStaticResourceStyles(Head(children), results, stylesDir), stylesDir)

findStaticResourceStyles(node, results, stylesDir) ==
    LET r1 == IF node.type = "Element"
              THEN StylesOfProperties(StyleTag(node.tagName), node.properties, results,
                       stylesDir)
              ELSE results
        r2 == IF node.type = "Directive" /\ node.name = "@useStyle"
              THEN StylesOfArgs(node.args, r1, stylesDir)
              ELSE r1
    IN FindStylesInEach(node.kids, r2, stylesDir)

\* steps 4 and 5 of main: the identifiers, then body[0] of each parsed file
analyse ==
    /\ phase = "resolved"
    /\ stages' = Append(stages, "analyse")
    /\ LET files == StyleFiles(input.styles)
           names == findStaticResourceStyles(ToValue(heap, finalAst), <<>>, DOMAIN files)
           broken == \E k \in 1..Len(names) : ~files[names[k]].parses
           r == AllocSeq(heap, [k \in 1..Len(names) |-> files[names[k]].ast.kids[1]])
       IN /\ styleFileNames' = names
          /\ IF broken
             THEN phase' = "failed" /\ UNCHANGED <<heap, styleNodes>>
             ELSE phase' = "analysed" /\ heap' = r.h /\ styleNodes' = r.as
    /\ UNCHANGED <<input, frontVars, initialAst, finalAst, stack, resolverVars, skips, lastSplice,
                   rootNode, xaml, written>>

\* children.splice(i, 1, ...replacement); i += replacement.length - 1, any
\* other child being walked in turn
RECURSIVE replaceStyleNode(_, _, _), ReplaceStyleFrom(_, _, _, _)
ReplaceStyleFrom(h, node, i, replacement) ==
    IF i > Len(h[node].kids) THEN h
    ELSE LET child == h[node].kids[i]
         IN IF h[child].type = "Element" /\ h[child].tagName = "#__Style__"
            THEN ReplaceStyleFrom([h EXCEPT ![node].kids = Splice(@, i, 1, replacement)],
                     node, i + Len(replacement), replacement)
            ELSE ReplaceStyleFrom(replaceStyleNode(h, child, replacement), node, i + 1,
                     replacement)

replaceStyleNode(h, node, replacement) ==
    IF ~HasKids(h[node]) THEN h ELSE ReplaceStyleFrom(h, node, 1, replacement)

\* step 6 of main
spliceStyles ==
    /\ phase = "analysed"
    /\ stages' = Append(stages, "splice")
    /\ heap' = replaceStyleNode(heap, finalAst, styleNodes)
    /\ phase' = "styled"
    /\ UNCHANGED <<input, frontVars, initialAst, finalAst, stack, resolverVars, skips, lastSplice,
                   rootNode, xaml, styleVars, written>>

(***************************************************************************)
(* main: the cleanup pass.                                                 *)
(***************************************************************************)
\* a filter that forgets the expressions
KeptByCleanup_DirectivesOnly(n) == n.type # "Directive"

\* the filter of step 3: child.type !== "Directive" && child.type !== "Expression"
KeptByCleanup(n) == n.type \notin {"Directive", "Expression"}

RECURSIVE deepCleanupAst(_, _), CleanupEach(_, _), FlattenPrograms(_, _)
\* deepCleanupAst of each address in turn
CleanupEach(h, as) ==
    IF as = <<>> THEN h ELSE CleanupEach(deepCleanupAst(h, Head(as)), Tail(as))

\* step 2: children.flatMap(...), a Program child giving way to its body
FlattenPrograms(h, children) ==
    IF children = <<>> THEN [h |-> h, out |-> <<>>]
    ELSE LET child == Head(children)
             h1 == IF h[child].type = "Program" THEN CleanupEach(h, h[child].kids) ELSE h
             rest == FlattenPrograms(h1, Tail(children))
         IN [h |-> rest.h,
             out |-> (IF h[child].type = "Program" THEN h1[child].kids ELSE <<child>>)
                        \o rest.out]

deepCleanupAst(h, node) ==
    IF ~HasKids(h[node]) THEN h
    ELSE LET children == h[node].kids
             IsElement(a) == h[a].type = "Element"
             h1 == CleanupEach(h, SelectSeq(children, IsElement))
             flat == FlattenPrograms(h1, children)
             Kept(a) == KeptByCleanup(flat.h[a])
         IN [flat.h EXCEPT ![node].kids = SelectSeq(flat.out, Kept)]

\* step 7 of main
cleanup ==
    /\ phase = "styled"
    /\ stages' = Append(stages, "cleanup")
    /\ heap' = deepCleanupAst(heap, finalAst)
    /\ phase' = "cleaned"
    /\ UNCHANGED <<styleVars, written, input, frontVars, initialAst, finalAst, stack, resolverVars, skips, lastSplice,
                   rootNode, xaml>>

(***************************************************************************)
(* XamlGenerator.  The output text is modelled line by line.               *)
(***************************************************************************)
\* String(value), JSON.stringify(value) for an object
Stringify(value) ==
    CASE value.t \in {"str", "bind", "res", "chars"} -> value
      [] value.t = "bool" -> Str(IF value.v THEN "true" ELSE "false")
      [] value.t = "num" -> [t |-> "numtext", v |-> value.v]
      [] value.t = "null" -> Str("null")
      [] value.t = "undef" -> Str("undefined")
      [] OTHER -> [t |-> "json", v |-> value]

\* `${value}` in a template literal; an object or array gives a text of its own
TemplateText(value) ==
    IF value.t \in {"obj", "arr"} THEN [t |-> "text", v |-> value] ELSE Stringify(value)

formatProperties(properties) ==
    [i \in 1..Len(properties) |->
        [key |-> properties[i].key, text |-> Stringify(properties[i].value)]]

Line(kind, indent, tagName, properties, text) ==
    [kind |-> kind, indent |-> indent, tagName |-> tagName, properties |-> properties,
     text |-> text]
EmptyLine == Line("empty", 0, "", <<>>, Undef)

RECURSIVE generateNode(_, _), GenerateEach(_, _)
\* children.map((child) => this.generateNode(child, indent)).join("\n")
GenerateEach(children, indent) ==
    IF children = <<>> THEN <<>>
    ELSE generateNode(Head(children), indent) \o GenerateEach(Tail(children), indent)

\* `node` is the tree as a value: the generator only reads
generateNode(node, indent) ==
    CASE node.type = "Root" -> GenerateEach(node.kids, indent)
      [] node.type = "Element" ->
            IF node.kids # <<>>
            THEN <<Line("open", indent, node.tagName, formatProperties(node.properties), Undef)>>
                     \o GenerateEach(node.kids, indent + 1)
                     \o <<Line("close", indent, node.tagName, <<>>, Undef)>>
            ELSE <<Line("self", indent, node.tagName, formatProperties(node.properties), Undef)>>
      [] node.type = "Text" ->
            <<Line("text", indent, "", <<>>,
                  IF Truthy(node.value) THEN TemplateText(node.value) ELSE Str(""))>>
      [] node.type = "Expression" ->
            IF node.content.k = "chars" /\ Trim(node.content.v) = <<>>
            THEN <<EmptyLine>>
            ELSE <<Line("expr", indent, "", <<>>, node.content)>>
      [] OTHER -> <<EmptyLine>>

\* a line of white space only
IsBlank(line) ==
    \/ line.kind = "empty"
    \/ /\ line.kind = "text"
       /\ CASE line.text.t = "str" -> line.text.v = ""
            [] line.text.t = "chars" -> Trim(line.text.v) = <<>>
            [] OTHER -> FALSE

\* the white space at the start of the text (FALSE: at its end) goes
TrimLine(line, atStart) ==
    LET l == IF atStart THEN [line EXCEPT !.indent = 0] ELSE line
    IN IF l.kind = "text" /\ l.text.t = "chars"
       THEN LET text == l.text.v
                kept == {k \in 1..Len(text) : ~IsSpace(text[k])}
                first == CHOOSE k \in kept : \A j \in kept : k <= j
                last == CHOOSE k \in kept : \A j \in kept : k >= j
            IN [l EXCEPT !.text.v = IF atStart THEN SubSeq(text, first, Len(text))
                                    ELSE SubSeq(text, 1, last)]
       ELSE l

\* string.trim() of the joined lines: the blank lines at both ends go, and so
\* does the indentation of the first line left
RECURSIVE TrimLines(_)
TrimLines(lines) ==
    IF lines = <<>> THEN lines
    ELSE IF IsBlank(Head(lines)) THEN TrimLines(Tail(lines))
    ELSE IF IsBlank(lines[Len(lines)]) THEN TrimLines(SubSeq(lines, 1, Len(lines) - 1))
    ELSE LET l1 == [lines EXCEPT ![1] = TrimLine(@, TRUE)]
         IN [l1 EXCEPT ![Len(l1)] = TrimLine(@, FALSE)]

\* nodes.filter((node) => node.type !== "Directive")
filterAstNodes(h, nodes) ==
    LET NotDirective(a) == h[a].type # "Directive"
    IN SelectSeq(nodes, NotDirective)

Root(h, children) ==
    Node("Root", "", <<>>, NoContent, "", <<>>, ToValues(h, children), Undef)

\* .replace("<#__StaticString />", statisString): the first such tag of the
\* text gives way to the content of data/StaticStrings.xaml
RECURSIVE ReplaceStaticString(_, _)
ReplaceStaticString(lines, statisString) ==
    IF lines = <<>> THEN lines
    ELSE LET line == Head(lines)
         IN IF line.kind = "self" /\ line.tagName = "#__StaticString"
                  /\ line.properties = <<>>
            THEN <<Line("strings", line.indent, "", <<>>, statisString)>> \o Tail(lines)
            ELSE <<line>> \o ReplaceStaticString(Tail(lines), statisString)

\* steps 8 and 9 of main, up to the output text: an empty body and a missing
\* data/StaticStrings.xaml are errors
generate ==
    /\ phase = "cleaned"
    /\ stages' = Append(stages, "generate")
    /\ LET filteredNodes == filterAstNodes(heap, heap[finalAst].kids)
       IN IF filteredNodes = <<>>
          THEN phase' = "failed" /\ UNCHANGED <<rootNode, xaml>>
          ELSE /\ rootNode' = filteredNodes
               /\ IF input.strings = Undef
                  THEN phase' = "failed" /\ xaml' = xaml
                  ELSE /\ phase' = "generated"
                       /\ xaml' = ReplaceStaticString(
                              TrimLines(generateNode(Root(heap, filteredNodes), 1)),
                              input.strings)
    /\ UNCHANGED <<styleVars, written, input, frontVars, heap, initialAst, finalAst, stack, resolverVars, skips,
                   lastSplice>>

\* the contents Math.random().toString(36).substring(2) can give, as tokens
Nonces == {1, 2}

\* the end of step 9: the three files of the output directory
write ==
    /\ phase = "generated"
    /\ stages' = Append(stages, "write")
    /\ \E nonce \in Nonces :
          written' = <<[file |-> "xaml", content |-> xaml],
                       [file |-> "AST.json", content |-> ToValue(heap, finalAst)],
                       [file |-> "xaml.ini", content |-> nonce]>>
    /\ phase' = "written"
    /\ UNCHANGED <<input, frontVars, heap, initialAst, finalAst, stack, resolverVars, skips,
                   lastSplice, rootNode, xaml, styleVars>>

(***************************************************************************)
(* Lexer.  A text is a sequence of characters; offsets count from 0 as in  *)
(* the source, so the character at offset p is chars[p + 1].  The texts of *)
(* the model hold no exponent, hexadecimal or Infinity spelling.          *)
(***************************************************************************)
MaxText == 3

\* /[a-zA-Z0-9]/
IsAlnum(c) == c \in Letters \cup Digits
\* /[a-zA-Z0-9_#.:\-]/
IsIdentChar(c) == IsAlnum(c) \/ c \in {"_", "#", ".", ":", "-"}
\* ["{", "}", "(", ")", "=", ","]
Symbols == {"{", "}", "(", ")", "=", ","}

TRUE_TEXT == <<"t", "r", "u", "e">>
FALSE_TEXT == <<"f", "a", "l", "s", "e">>
PROPS_TEXT == <<"@", "p", "r", "o", "p", "s">>
ResourceDirectives == {<<"@", "u", "s", "e", "C", "o", "m", "p", "o", "n", "e", "n", "t", "s">>,
                       <<"@", "u", "s", "e", "D", "a", "t", "a">>,
                       <<"@", "u", "s", "e", "S", "t", "y", "l", "e">>}

Token(type, value, p) == [type |-> type, value |-> value, pos |-> p]

\* chars.slice(start, end)
Slice(chars, start, end) == SubSeq(chars, start + 1, end)

\* chars.startsWith(text, p)
StartsWith(chars, text, p) ==
    p + Len(text) <= Len(chars) /\ SubSeq(chars, p + 1, p + Len(text)) = text

\* chars.indexOf(text, start), -1 when there is none
IndexOf(chars, text, start) ==
    LET found == {p \in start..Len(chars) : StartsWith(chars, text, p)}
    IN IF found = {} THEN -1 ELSE CHOOSE p \in found : \A q \in found : p <= q

\* while (pos < chars.length && test(chars[pos])) pos++
ScanWhile(chars, p, Test(_)) ==
    LET stops == {q \in p..Len(chars) : q = Len(chars) \/ ~Test(chars[q + 1])}
    IN CHOOSE q \in stops : \A r \in stops : q <= r

\* the loop of branch 3: a backslash is kept and the character behind it taken
\* whatever it is; behind the end of the chars that is `undefined`, appended
\* as its text
RECURSIVE ScanString(_, _, _)
ScanString(chars, p, val) ==
    IF p < Len(chars) /\ chars[p + 1] # "\""
    THEN LET escaped == chars[p + 1] = "\\"
             p1 == IF escaped THEN p + 1 ELSE p
             val1 == IF escaped THEN Append(val, "\\") ELSE val
             taken == IF p1 < Len(chars) THEN <<chars[p1 + 1]>>
                      ELSE <<"u", "n", "d", "e", "f", "i", "n", "e", "d">>
         IN ScanString(chars, p1 + 1, val1 \o taken)
    ELSE [val |-> val, pos |-> p]

\* !isNaN(Number(text)): white space around is dropped, the empty text is 0,
\* else an optional minus and digits
IsNumberText(text) ==
    LET t == Trim(text)
        digits == IF t # <<>> /\ Head(t) = "-" THEN Tail(t) ELSE t
    IN t = <<>> \/ (digits # <<>> /\ \A k \in 1..Len(digits) : digits[k] \in Digits)

\* a loop that stays on the white space
SkipSpace_Stay(p) == p

\* this.pos++; continue
SkipSpace(p) == p + 1

\* one iteration of the loop of tokenize at offset p < chars.length: the
\* tokens pushed, the next offset, or the error thrown
tokenizeStep(chars, p) ==
    LET char == chars[p + 1]
        Step(pushed, next) == [threw |-> FALSE, pushed |-> pushed, pos |-> next]
        Throws == [threw |-> TRUE, pushed |-> <<>>, pos |-> p]
    IN CASE IsSpace(char) -> Step(<<>>, SkipSpace(p))
         [] StartsWith(chars, <<"{", "{">>, p) ->
               LET end == IndexOf(chars, <<"}", "}">>, p)
               IN IF end = -1 THEN Throws
                  ELSE Step(<<Token("Expression", Slice(chars, p, end + 2), p)>>, end + 2)
         [] char = "@" ->
               LET end == ScanWhile(chars, p + 1, IsAlnum)
               IN Step(<<Token("Directive", Slice(chars, p, end), p)>>, end)
         [] char = "\"" ->
               LET r == ScanString(chars, p + 1, <<>>)
               IN Step(<<Token("String", r.val, p)>>, r.pos + 1)
         [] char \in Symbols -> Step(<<Token("Symbol", <<char>>, p)>>, p + 1)
         [] IsIdentChar(char) ->
               LET end == ScanWhile(chars, p, IsIdentChar)
                   val == Slice(chars, p, end)
                   isNumber == /\ IsNumberText(val)
                               /\ \A k \in 1..Len(val) : val[k] \notin {":", "#", ".", "-"}
               IN Step(<<Token(IF isNumber THEN "Number" ELSE "Identifier", val, p)>>, end)
         [] OTHER -> Throws

\* the characters of the texts that are tried in every arrangement
Alphabet == {"a", "1", " ", "{", "}", "(", ")", "=", "\"", "@", "$", "\\"}

\* texts written out
Written == {
    \* an element with a property and a child
    <<"a", "(", "b", "=", "1", ")", "{", "c", "}">>,
    \* the component file of the README, its body made parseable
    <<"@", "p", "r", "o", "p", "s", " ", "i", "t", "e", "m", "\n", "\n", "I", "t", "e",
      "m", "E", "l", "e", "m", "e", "n", "t", " ", "{", " ", "}">>,
    \* @props with its braces
    <<"@", "p", "r", "o", "p", "s", " ", "{", " ", "i", "t", "e", "m", " ", "o", "t", "h",
      "e", "r", " ", "}">>,
    \* property values: the empty string, a number with zeros, a capital True
    <<"A", "(", "x", "=", "\"", "\"", ",", " ", "y", "=", "\"", "0", "0", "7", "\"", ",",
      " ", "z", "=", "T", "r", "u", "e", ")">>,
    \* a nested tree whose values are written as they are stored
    <<"G", "r", "i", "d", "(", "w", "=", "\"", "1", "0", "\"", ",", " ", "o", "n", "=",
      "t", "r", "u", "e", ")", "{", "R", "o", "w", "(", "t", "=", "\"", "s", "\"", ")",
      " ", "C", "e", "l", "l", "}">>,
    \* resource directives
    <<"@", "u", "s", "e", "D", "a", "t", "a", " ", "{", " ", "i", "t", "e", "m", "s", " ",
      "\"", "d", "a", "t", "a", "/", "i", "t", "e", "m", "s", ".", "j", "s", "o", "n",
      "\"", " ", "}">>,
    \* an unknown directive with a block, braces inside
    <<"@", "x", " ", "{", " ", "a", " ", "{", " ", "=", " ", "}", " ", "b">>,
    \* a loop and a binding
    <<"a", " ", "{", " ", "{", "{", " ", "f", "o", "r", " ", "i", " ", "i", "n", " ", "l",
      " ", "}", "}", " ", "b", "(", "v", "=", "\"", "{", "{", " ", "i", " ", "}", "}",
      "\"", ")", " ", "{", "{", " ", "e", "n", "d", " ", "f", "o", "r", " ", "}", "}", " ",
      "}">>,
    \* a property written twice
    <<"a", "(", "x", "=", "1", ",", " ", "x", "=", "2", ")">>,
    \* a body that is not closed
    <<"a", " ", "{", " ", "b", " ", "{", " ", "c", " ", "}">>,
    \* a block of @props that is not closed
    <<"@", "p", "r", "o", "p", "s", " ", "{", " ", "a">>,
    \* a string with an escaped quote, and one that is not closed
    <<"\"", "s", "\\", "\"", "q", "\"", " ", "\"", "t", "\\">>,
    \* text at statement level
    <<"a", " ", "{", " ", "\"", "t", "\"", " ", "1", "2", " ", "}">>
}

Sources == UNION {[1..n -> Alphabet] : n \in 0..MaxText} \cup Written

\* the main program stands still
MainIdle ==
    /\ input = Unit(<<>>, <<>>)
    /\ phase = "idle"
    /\ heap = <<>>
    /\ initialAst = 0
    /\ finalAst = 0
    /\ stack = <<>>
    /\ componentMap = EmptyMap
    /\ dataMap = EmptyMap
    /\ componentAstCache = EmptyMap
    /\ dataCache = EmptyMap
    /\ docs = <<>>
    /\ retrievals = <<>>
    /\ loaderCalls = <<>>
    /\ skips = 0
    /\ lastSplice = NoSplice
    /\ rootNode = <<>>
    /\ xaml = <<>>
    /\ styleFileNames = <<>>
    /\ styleNodes = <<>>
    /\ written = <<>>
    /\ stages = <<>>

\* new UhmlxParser(input): the lexer is about to run
InitFront ==
    /\ MainIdle
    /\ source \in Sources
    /\ pos = 0
    /\ tokens = <<>>
    /\ scans = 0
    /\ front = "lexing"
    /\ current = 0
    /\ program = Program(<<>>)
    /\ markup = <<>>

\* one iteration of the loop of tokenize
scan ==
    /\ front = "lexing"
    /\ pos < Len(source)
    /\ LET r == tokenizeStep(source, pos)
       IN /\ front' = IF r.threw THEN "lexfailed" ELSE front
          /\ tokens' = tokens \o r.pushed
          /\ pos' = r.pos
    /\ scans' = scans + 1
    /\ UNCHANGED <<mainVars, source, current, program, markup>>

\* the loop has ended: tokens.push({ type: TokenType.EOF, value: "", pos: this.pos })
endOfInput ==
    /\ front = "lexing"
    /\ pos >= Len(source)
    /\ tokens' = Append(tokens, Token("EOF", <<>>, pos))
    /\ front' = "lexed"
    /\ UNCHANGED <<mainVars, source, pos, scans, current, program, markup>>

(***************************************************************************)
(* UhmlxParser.  The cursor counts from 0 as in the source; a result is    *)
(* the record of what was built (out), the cursor behind it, and whether   *)
(* an error was thrown.                                                    *)
(***************************************************************************)
Built(out, cur) == [threw |-> FALSE, out |-> out, current |-> cur]
Throws(cur) == [threw |-> TRUE, out |-> <<>>, current |-> cur]

\* what follows a call that may throw: the error goes up, a result goes on
Then(r, Next(_)) == CHOOSE out \in {IF v.threw THEN v ELSE Next(v) : v \in {r}} : TRUE

\* stands for a value argument that is left out
AnyValue == <<"any value">>

peek(toks, cur) == IF cur < Len(toks) THEN toks[cur + 1] ELSE Token("EOF", <<>>, -1)
isAtEnd(toks, cur) == peek(toks, cur).type = "EOF"
check(toks, cur, type, value) ==
    /\ ~isAtEnd(toks, cur)
    /\ peek(toks, cur).type = type
    /\ value = AnyValue \/ peek(toks, cur).value = value

\* a consume that goes on when the token is not the expected one
consume_Lenient(toks, cur, type, value) ==
    Built(peek(toks, cur), IF check(toks, cur, type, value) THEN cur + 1 ELSE cur)

\* the token consumed, or the error
consume(toks, cur, type, value) ==
    IF check(toks, cur, type, value) THEN Built(peek(toks, cur), cur + 1) ELSE Throws(cur)

\* text.toLowerCase()
ToLowerCase(text) ==
    [k \in 1..Len(text) |->
        IF \E u \in 1..26 : UpperLetters[u] = text[k]
        THEN LowerLetters[CHOOSE u \in 1..26 : UpperLetters[u] = text[k]]
        ELSE text[k]]

\* Number(text) for a text that IsNumberText
RECURSIVE DigitsValue(_)
DigitsValue(digits) ==
    IF digits = <<>> THEN 0
    ELSE DigitsValue(SubSeq(digits, 1, Len(digits) - 1)) * 10
             + (CHOOSE d \in 0..9 : DigitChars[d + 1] = digits[Len(digits)])
NumberOf(text) ==
    LET t == Trim(text)
    IN IF t # <<>> /\ Head(t) = "-" THEN 0 - DigitsValue(Tail(t)) ELSE DigitsValue(t)

\* lines 214-218: the stored value of a property written as `value`
Coerce(value) ==
    IF ToLowerCase(value) = TRUE_TEXT THEN Bool(TRUE)
    ELSE IF ToLowerCase(value) = FALSE_TEXT THEN Bool(FALSE)
    ELSE IF IsNumberText(value) THEN Num(NumberOf(value))
    ELSE Chars(value)

\* properties[key] = value: a key written again keeps its place
SetProperty(properties, key, value) ==
    IF \E k \in 1..Len(properties) : properties[k].key = key
    THEN [k \in 1..Len(properties) |->
             IF properties[k].key = key THEN Prop(key, value) ELSE properties[k]]
    ELSE Append(properties, Prop(key, value))

\* the do-while of parseElement: key = value, then a comma and the next
RECURSIVE parseProperties(_, _, _)
parseProperties(toks, cur, properties) ==
    Then(consume(toks, cur, "Identifier", AnyValue), LAMBDA key :
    Then(consume(toks, key.current, "Symbol", <<"=">>), LAMBDA eq :
        IF peek(toks, eq.current).type \notin {"String", "Number", "Expression", "Identifier"}
        THEN Throws(eq.current)
        ELSE Then(Built(SetProperty(properties, key.out.value,
                                    Coerce(peek(toks, eq.current).value)),
                        eq.current + 1), LAMBDA set :
                 IF check(toks, set.current, "Symbol", <<",">>)
                 THEN parseProperties(toks, set.current + 1, set.out)
                 ELSE set)))

\* the arguments of a resource directive: key "path" key "path"
RECURSIVE parsePairs(_, _, _)
parsePairs(toks, cur, args) ==
    IF ~check(toks, cur, "Identifier", AnyValue) THEN Built(args, cur)
    ELSE Then(consume(toks, cur + 1, "String", AnyValue), LAMBDA val :
             parsePairs(toks, val.current,
                        Append(args, Arg(peek(toks, cur).value, val.out.value))))

\* the arguments of @props: identifiers
RECURSIVE parseNames(_, _, _)
parseNames(toks, cur, args) ==
    IF ~check(toks, cur, "Identifier", AnyValue) THEN Built(args, cur)
    ELSE parseNames(toks, cur + 1, Append(args, PropName(peek(toks, cur).value)))

\* the block of an unknown directive: up to the next `}` or the end
skipBlock(toks, cur) ==
    Built(<<>>, CHOOSE k \in cur..Len(toks) :
                   /\ check(toks, k, "Symbol", <<"}">>) \/ isAtEnd(toks, k)
                   /\ \A j \in cur..(k - 1) :
                          ~(check(toks, j, "Symbol", <<"}">>) \/ isAtEnd(toks, j)))

parseDirective(toks, cur) ==
    LET name == peek(toks, cur).value
    IN IF ~check(toks, cur + 1, "Symbol", <<"{">>)
       THEN Built(Directive(name, <<>>), cur + 1)
       ELSE Then(IF name \in ResourceDirectives THEN parsePairs(toks, cur + 2, <<>>)
                 ELSE IF name = PROPS_TEXT THEN parseNames(toks, cur + 2, <<>>)
                 ELSE skipBlock(toks, cur + 2), LAMBDA args :
            Then(consume(toks, args.current, "Symbol", <<"}">>), LAMBDA close :
                Built(Directive(name, args.out), close.current)))

\* token.value.replace(/^\{\{\s*/, "").replace(/\s*\}\}$/, "")
StripExpression(value) ==
    LET NotSpace(text) == {k \in 1..Len(text) : ~IsSpace(text[k])}
        opened == SubSeq(value, 3, Len(value))
        first == CHOOSE k \in NotSpace(opened) : \A j \in NotSpace(opened) : k <= j
        left == SubSeq(opened, first, Len(opened))
        inner == SubSeq(left, 1, Len(left) - 2)
    IN IF NotSpace(inner) = {} THEN <<>>
       ELSE SubSeq(inner, 1, CHOOSE k \in NotSpace(inner) : \A j \in NotSpace(inner) : k >= j)

RECURSIVE parseStatement(_, _), parseStatements(_, _, _, _), parseElement(_, _)
\* the loops of parse (inBlock FALSE: up to the end) and of an element body
\* (inBlock TRUE: up to a `}` or the end)
parseStatements(toks, cur, nodes, inBlock) ==
    IF isAtEnd(toks, cur) \/ (inBlock /\ check(toks, cur, "Symbol", <<"}">>))
    THEN Built(nodes, cur)
    ELSE Then(parseStatement(toks, cur), LAMBDA s :
         Then(Built(Append(nodes, s.out), s.current), LAMBDA pushed :
             parseStatements(toks, pushed.current, pushed.out, inBlock)))

parseElement(toks, cur) ==
    LET tagName == peek(toks, cur).value
        list == IF ~check(toks, cur + 1, "Symbol", <<"(">>) THEN Built(<<>>, cur + 1)
                ELSE Then(IF check(toks, cur + 2, "Symbol", <<")">>) THEN Built(<<>>, cur + 2)
                          ELSE parseProperties(toks, cur + 2, <<>>), LAMBDA properties :
                     Then(consume(toks, properties.current, "Symbol", <<")">>), LAMBDA close :
                         Built(properties.out, close.current)))
    IN Then(list, LAMBDA properties :
           IF ~check(toks, properties.current, "Symbol", <<"{">>)
           THEN Built(Element(tagName, properties.out, <<>>), properties.current)
           ELSE Then(parseStatements(toks, properties.current + 1, <<>>, TRUE),
                     LAMBDA children :
                Then(consume(toks, children.current, "Symbol", <<"}">>), LAMBDA close :
                    Built(Element(tagName, properties.out, children.out), close.current))))

parseStatement(toks, cur) ==
    LET token == peek(toks, cur)
    IN CASE token.type = "Directive" -> parseDirective(toks, cur)
         [] token.type = "Expression" ->
               Built(Expression([k |-> "chars", v |-> StripExpression(token.value)]), cur + 1)
         [] token.type = "Identifier" -> parseElement(toks, cur)
         [] token.type \in {"String", "Number"} -> Built(Text(Chars(token.value)), cur + 1)
         [] OTHER -> Throws(cur)

\* parse(): the Program of all the statements up to the end
parse ==
    /\ front = "lexed"
    /\ \E r \in {parseStatements(tokens, 0, <<>>, FALSE)} :
          /\ front' = IF r.threw THEN "parsefailed" ELSE "parsed"
          /\ current' = r.current
          /\ program' = IF r.threw THEN program ELSE Program(r.out)
    /\ UNCHANGED <<mainVars, source, pos, tokens, scans, markup>>

\* steps 8 and 9 of main on the Program: generate(Root of the body without its
\* directives)
generateMarkup ==
    /\ front = "parsed"
    /\ LET NotDirective(n) == n.type # "Directive"
           root == Node("Root", "", <<>>, NoContent, "", <<>>,
                       SelectSeq(program.kids, NotDirective), Undef)
       IN markup' = TrimLines(generateNode(root, 1))
    /\ front' = "generated"
    /\ UNCHANGED <<mainVars, source, pos, tokens, scans, current, program>>

Next ==
    \/ uhmlxToAst
    \/ analyse
    \/ spliceStyles
    \/ cleanup
    \/ generate
    \/ write
    \/ resolve
    \/ traverseReturn
    \/ traverseDirective
    \/ traverseChild
    \/ resolveIf
    \/ skipLoop
    \/ expandLoop
    \/ loopItem
    \/ loopRecurse
    \/ loopSplice

Spec == Init /\ [][Next]_vars

NextFront ==
    \/ scan
    \/ endOfInput
    \/ parse
    \/ generateMarkup

SpecFront == InitFront /\ [][NextFront]_vars

(***************************************************************************)
(* Properties.                                                             *)
(***************************************************************************)
\* the addresses below an address
Descendants(h, a) == Reach(h, a) \ {a}

\* a marker of a control construct
IsMarker(n) ==
    n.type = "Expression"
        /\ n.content.k \in {"for", "forbad", "endfor", "if", "elseif", "else", "endif"}

\* C1: whenever executeLoopExpansion is left for a `for` marker that resolved
\* to an array of n items, with an Element body (a reference naming a declared
\* component whose file loads) and an `end for`, the sibling list holds
\* exactly n results in place of the range, the i-th from the i-th item, all
\* of them new nodes, and the two markers of the range are gone.
C1_RangeReplacedByNResults ==
    (lastSplice.op = "loop" \/ (lastSplice.op = "throw" /\ lastSplice.why = "binding")) =>
        /\ lastSplice.op = "loop"
        /\ Len(lastSplice.after) =
               Len(lastSplice.before) - (lastSplice.endIndex - lastSplice.startIndex + 1)
                   + lastSplice.n
        /\ lastSplice.from = [i \in 1..lastSplice.n |-> i]
        /\ \A i \in 1..Len(lastSplice.after) :
               (lastSplice.startIndex <= i /\ i < lastSplice.startIndex + lastSplice.n) =>
                   \A j \in 1..Len(lastSplice.before) :
                       lastSplice.after[i] # lastSplice.before[j]
        /\ \A j \in {lastSplice.startIndex, lastSplice.endIndex} :
               \A i \in 1..Len(lastSplice.after) :
                   lastSplice.after[i] # lastSplice.before[j]

\* C3: a loop that cannot be expanded is skipped and the scan goes on: the
\* step that leaves executeLoopExpansion without an expansion moves the scan
\* of the sibling list past the marker.
C3_SkippedLoopIsPassed ==
    [][skips' # skips => stack'[Len(stack')].i > stack[Len(stack)].i]_vars

\* C5: what loadComponentAst and loadData return shares no object with the
\* cache entry nor with what another retrieval of the same path returned.
C5_RetrievalsAreCopies ==
    \A i \in 1..Len(retrievals) :
        LET r == retrievals[i]
        IN IF r.cache = "data"
           THEN /\ r.ret # dataCache[r.path]
                /\ \A j \in 1..Len(retrievals) :
                       (j # i /\ retrievals[j].cache = "data") => retrievals[j].ret # r.ret
           ELSE /\ ReachAll(heap, r.ret) \cap ReachAll(heap, componentAstCache[r.path]) = {}
                /\ \A j \in 1..Len(retrievals) :
                       (j # i /\ retrievals[j].cache = "component") =>
                           ReachAll(heap, r.ret) \cap ReachAll(heap, retrievals[j].ret) = {}

\* C9: once the cleanup pass has run, no Program node is left below the root.
C9_NoProgramBelowRoot ==
    phase \in {"cleaned", "generated"} =>
        \A a \in Descendants(heap, finalAst) : heap[a].type # "Program"

\* the loop expansions under way
LoopFrames == {i \in 1..Len(stack) : stack[i].kind = "loop"}

\* the instances a loop expansion has built so far
Instances(f) == f.newNodes \o f.componentInstance

\* C4: the subtrees built for the iterations of a loop share no node with each
\* other, with the template or with a cached component AST; the result of an
\* iteration that has ended keeps the value it ended with, and the template
\* and the cache keep theirs.
C4_CloneIsolation ==
    \A k \in LoopFrames :
        LET f == stack[k]
            inst == Instances(f)
        IN /\ \A i, j \in 1..Len(inst) :
                  i # j => Reach(heap, inst[i]) \cap Reach(heap, inst[j]) = {}
           /\ ReachAll(heap, inst) \cap ReachAll(heap, f.componentAstSource) = {}
           /\ \A path \in DOMAIN componentAstCache :
                  /\ ReachAll(heap, inst) \cap ReachAll(heap, componentAstCache[path]) = {}
                  /\ ToValues(heap, componentAstCache[path]) = <<ComponentFiles[path]>>
           /\ ToValues(heap, f.newNodes) = f.done
           /\ ToValues(heap, f.componentAstSource) = f.template

\* the second iteration of a loop over a component is under way, and binding
\* has given the two instances values that differ from each other and from the
\* template
C4_TwoBoundInstances ==
    \E k \in LoopFrames :
        /\ stack[k].k = 2
        /\ Len(stack[k].done) = 1
        /\ ToValues(heap, stack[k].componentInstance) \notin {stack[k].done, stack[k].template}
        /\ stack[k].done # stack[k].template
        /\ componentAstCache # EmptyMap

\* C6: the tree passed to resolve keeps its value, and the tree resolve works
\* on and returns shares no node with it.
C6_ArgumentUntouched ==
    initialAst # 0 =>
        /\ ToValue(heap, initialAst) = input.tree
        /\ finalAst # 0 => Reach(heap, finalAst) \cap Reach(heap, initialAst) = {}

\* resolve has returned a tree that differs from its argument
C6_ResolvedDiffers ==
    /\ phase = "resolved"
    /\ lastSplice.op = "loop"
    /\ ToValue(heap, finalAst) # input.tree

\* C7: the tree handed to generate holds no Directive and no Expression node
\* at any depth.
C7_GeneratorInputClean ==
    phase = "generated" =>
        \A a \in ReachAll(heap, rootNode) : heap[a].type \notin {"Directive", "Expression"}

\* a tree with an inlined component and an expression left by the resolver
\* has been generated
C7_GeneratedFromMarkedTree ==
    /\ phase = "generated"
    /\ \/ componentAstCache # EmptyMap
       \/ \E i \in 1..Len(input.tree.kids) : input.tree.kids[i].type = "Expression"

\* a tree without Directive and Expression nodes
RECURSIVE PlainTree(_)
PlainTree(tree) ==
    /\ tree.type \notin {"Directive", "Expression"}
    /\ \A i \in 1..Len(tree.kids) : PlainTree(tree.kids[i])

IfDepth(nodes, s, i) ==
    Cardinality({j \in (s + 1)..(i - 1) : IsIfMarker(nodes[j])})
        - Cardinality({j \in (s + 1)..(i - 1) :
              nodes[j].type = "Expression" /\ nodes[j].content.k = "endif"})

\* the dividers of the chain from s to e: its `if` and the `else if` and
\* `else` markers of its own level
ChainDividers(nodes, s, e) ==
    {s} \cup {i \in (s + 1)..(e - 1) :
                 /\ nodes[i].type = "Expression"
                 /\ nodes[i].content.k \in {"elseif", "else"}
                 /\ IfDepth(nodes, s, i) = 0}

\* a divider whose condition is truthy; an `else` always is
DividerHolds(n, dataContext) ==
    n.content.k = "else" \/ evaluateCondition(n.content.path, dataContext)

\* the least element of a set of indexes
Least(S) == CHOOSE i \in S : \A j \in S : i <= j

\* the sibling list of the last conditional before the splice, as nodes
IfNodes == [i \in 1..Len(lastSplice.before) |-> heap[lastSplice.before[i]]]
IfDividers == ChainDividers(IfNodes, lastSplice.startIndex, lastSplice.endIndex)
IfWinners == {d \in IfDividers : DividerHolds(IfNodes[d], lastSplice.dataContext)}
IfAround(kept) ==
    SubSeq(lastSplice.before, 1, lastSplice.startIndex - 1) \o kept
        \o SubSeq(lastSplice.before, lastSplice.endIndex + 1, Len(lastSplice.before))

\* C2: after executeIfCondition the chain has given way to the nodes of one
\* branch, that of the first divider whose condition is truthy (an `else`
\* being truthy), or to nothing when no divider is; the siblings around the
\* chain stay as they were.
C2_OneBranchSurvives ==
    lastSplice.op = "if" =>
        IF IfWinners = {} THEN lastSplice.after = IfAround(<<>>)
        ELSE LET w == Least(IfWinners)
                 next == Least({d \in IfDividers : d > w} \cup {lastSplice.endIndex})
             IN lastSplice.after = IfAround(SubSeq(lastSplice.before, w + 1, next - 1))

\* a chain of three dividers has been resolved in favour of its `else if`,
\* branches before and after it losing
C2_ElseIfBranchKept ==
    /\ lastSplice.op = "if"
    /\ Cardinality(IfDividers) = 3
    /\ IfWinners # {}
    /\ IfNodes[Least(IfWinners)].content.k = "elseif"
    /\ \E d \in IfDividers : d > Least(IfWinners)

\* the markers of a sibling list are paired: every `for` has its `end for`,
\* every `if` its `end if`, dividers stand in an open `if`
RECURSIVE PairedFrom(_, _)
PairedFrom(nodes, open) ==
    IF nodes = <<>> THEN open = <<>>
    ELSE LET k == IF Head(nodes).type = "Expression" THEN Head(nodes).content.k ELSE "none"
             top == IF open = <<>> THEN "none" ELSE open[Len(open)]
             pop == SubSeq(open, 1, Len(open) - 1)
         IN CASE k \in {"for", "forbad"} -> PairedFrom(Tail(nodes), Append(open, "for"))
              [] k = "if" -> PairedFrom(Tail(nodes), Append(open, "if"))
              [] k = "endfor" -> top = "for" /\ PairedFrom(Tail(nodes), pop)
              [] k = "endif" -> top = "if" /\ PairedFrom(Tail(nodes), pop)
              [] k \in {"elseif", "else"} -> top = "if" /\ PairedFrom(Tail(nodes), open)
              [] OTHER -> PairedFrom(Tail(nodes), open)

RECURSIVE WellPaired(_)
WellPaired(tree) ==
    /\ PairedFrom(tree.kids, <<>>)
    /\ \A i \in 1..Len(tree.kids) : WellPaired(tree.kids[i])

\* the main file and the component files have their markers paired
PairedInput ==
    /\ WellPaired(input.tree)
    /\ \A path \in DOMAIN ComponentFiles : WellPaired(ComponentFiles[path])

C11_BindingNeverThrows ==
    ~(lastSplice.op = "throw" /\ lastSplice.why = "binding")

\* C12: a loop over an inline Element with a property `{{ <loopVar>.<field> }}`
\* yields for each item that has the field, in array order, an Element whose
\* property is the item's field.
C12_InlineFieldBound ==
    (lastSplice.op = "loop" /\ lastSplice.template[1].type = "Element") =>
        \A i \in 1..lastSplice.n :
            \A p \in 1..Len(lastSplice.template[1].properties) :
                LET val == lastSplice.template[1].properties[p].value
                IN (/\ val.t = "bind"
                    /\ Len(val.v) = 2
                    /\ val.v[1] = lastSplice.loopVar
                    /\ Get(lastSplice.dataArray[i], val.v[2]) # Undef) =>
                       lastSplice.done[i].properties[p].value
                           = Get(lastSplice.dataArray[i], val.v[2])

\* the running calls of traverseAndProcessDirectives
TravFrames == {k \in 1..Len(stack) : stack[k].kind = "trav"}

\* C18: the scan of a sibling list goes on at the index where a replaced range
\* started, so no node of a list is passed without having been examined: every
\* node in front of the index of a running scan has been read by that scan.
C18_NoNodeSkipped ==
    \A k \in TravFrames :
        LET f == stack[k]
        IN HasKids(heap[f.node]) =>
              \A idx \in 1..Len(heap[f.node].kids) :
                  idx < f.i => heap[f.node].kids[idx] \in f.seen

\* a conditional has kept a branch and the scan of its list has gone through
\* the first node of the branch
C18_BranchScanned ==
    /\ phase = "resolving"
    /\ lastSplice.op = "if"
    /\ Len(lastSplice.after) > Len(lastSplice.before)
                                 - (lastSplice.endIndex - lastSplice.startIndex + 1)
    /\ \E k \in TravFrames :
          /\ stack[k].node = lastSplice.list
          /\ stack[k].i > lastSplice.startIndex
          /\ lastSplice.after[lastSplice.startIndex] \in stack[k].seen

\* the `end if` markers after s that close as many `if` as were opened since s
BalancedEndIfs(nodes, s) ==
    {e \in (s + 1)..Len(nodes) :
        /\ nodes[e].type = "Expression"
        /\ nodes[e].content.k = "endif"
        /\ IfDepth(nodes, s, e) = 0}

\* the indexes findEndIfBlock has collected as dividers
DividerIndexes(blockInfo) == {blockInfo.dividers[d].index : d \in 1..Len(blockInfo.dividers)}

\* C19: findEndIfBlock pairs an `if` marker with the first `end if` of its
\* sibling list that balances the `if`/`end if` pairs in between (none when
\* there is no such marker), and its dividers are the `if` itself and the
\* `else if`/`else` markers at nesting depth 0, in list order.
C19_BalancedPairing ==
    (Walking /\ AtChild /\ IsIfMarker(Child)) =>
        LET blockInfo == findEndIfBlock(ChildNodes, Top.i)
            ends == BalancedEndIfs(ChildNodes, Top.i)
        IN /\ blockInfo.endIfIndex = (IF ends = {} THEN 0 ELSE Least(ends))
           /\ ends # {} =>
                 /\ DividerIndexes(blockInfo) = ChainDividers(ChildNodes, Top.i, Least(ends))
                 /\ \A d \in 1..(Len(blockInfo.dividers) - 1) :
                        blockInfo.dividers[d].index < blockInfo.dividers[d + 1].index

\* the scan is on an `if` whose first branch holds a conditional with an
\* `else` of its own, and whose chain has a divider behind that conditional
C19_OuterIfOverInnerChain ==
    /\ AtIf
    /\ \E a, b, c \in 1..Len(Children) :
          /\ Top.i < a /\ a < b /\ b < c
          /\ c < findEndIfBlock(ChildNodes, Top.i).endIfIndex
          /\ ChildNodes[a].type = "Expression" /\ ChildNodes[a].content.k = "else"
          /\ ChildNodes[b].type = "Expression" /\ ChildNodes[b].content.k = "endif"
          /\ ChildNodes[c].type = "Expression" /\ ChildNodes[c].content.k = "elseif"
          /\ a \notin DividerIndexes(findEndIfBlock(ChildNodes, Top.i))
          /\ c \in DividerIndexes(findEndIfBlock(ChildNodes, Top.i))

\* the values a condition counts as false
Falsy == {Undef, Null, Num(0), Bool(FALSE), Str("")}

\* the value a dotted path reaches in a value, Undef when a segment is missing
RECURSIVE Reached(_, _)
Reached(val, path) ==
    IF path = <<>> THEN val
    ELSE IF val.t = "obj" /\ Head(path) \in DOMAIN val.v
         THEN Reached(val.v[Head(path)], Tail(path))
         ELSE Undef

\* the path as it is walked: without its first segment when it has several
\* and the context has no field of that name
WalkedPath(path, dataContext) ==
    IF Len(path) > 1 /\ ~(dataContext.t = "obj" /\ path[1] \in DOMAIN dataContext.v)
    THEN Tail(path) ELSE path

\* the conditions the conditional under the scan evaluates
ConditionsAtScan ==
    LET dividers == findEndIfBlock(ChildNodes, Top.i).dividers
    IN {dividers[d].condition : d \in {x \in 1..Len(dividers) : dividers[x].type # "else"}}

\* C20: evaluateCondition is true exactly when the dotted path, walked through
\* the data context (without its first segment only when the path has several
\* and the context has no such field), reaches a value that is not undefined,
\* null, 0, false or the empty string; a missing segment gives false.
C20_ConditionTruth ==
    AtIf =>
        \A c \in ConditionsAtScan :
            evaluateCondition(c, Top.dataContext)
                <=> (Reached(Top.dataContext, WalkedPath(c, Top.dataContext)) \notin Falsy)

\* a chain whose conditions are false for a falsy value, for a missing
\* segment, and true for a path walked from its first segment and for one
\* walked from its second
C20_FalsyMissingAndDropped ==
    /\ AtIf
    /\ {<<"item", "zero">>, <<"item", "nil", "x">>, <<"sub", "flag">>, <<"item", "sub", "flag">>}
          \subseteq ConditionsAtScan
    /\ ~evaluateCondition(<<"item", "zero">>, Top.dataContext)
    /\ ~evaluateCondition(<<"item", "nil", "x">>, Top.dataContext)
    /\ evaluateCondition(<<"sub", "flag">>, Top.dataContext)
    /\ evaluateCondition(<<"item", "sub", "flag">>, Top.dataContext)

\* the stages of one compilation, in their order
StageOrder == <<"parse", "resolve", "analyse", "splice", "cleanup", "generate", "write">>

\* C14: the stages run in the fixed order, each at most once; a source with a
\* lexical or a grammar error gets no further than the parse; after a fatal
\* error no file has been written, and files are written only once every
\* stage has run.
C14_StagesInOrder ==
    /\ Len(stages) <= Len(StageOrder)
    /\ stages = SubSeq(StageOrder, 1, Len(stages))
    /\ input.fault # "none" => Len(stages) <= 1
    /\ phase = "failed" => written = <<>>
    /\ written # <<>> => (stages = StageOrder /\ phase = "written")

\* a compilation that has failed on its empty resolved body, every stage but
\* the last having run
C14_FailedBeforeWrite ==
    /\ phase = "failed"
    /\ stages = SubSeq(StageOrder, 1, 6)
    /\ filterAstNodes(heap, heap[finalAst].kids) = <<>>

\* tokenize has returned
Tokenized == front \in {"lexed", "parsed", "parsefailed", "generated"}

\* C16: every iteration of the lexer's loop consumes at least one character or
\* fails, so there are never more iterations than characters passed (one more
\* when the last one failed); and when
\* tokenize has returned, its result holds one End-of-input token, which is
\* the last, while the offsets of the others rise strictly and lie in the input.
C16_LexerProgressAndShape ==
    /\ scans <= pos + (IF front = "lexfailed" THEN 1 ELSE 0)
    /\ pos <= Len(source) + 2
    /\ Tokenized =>
          /\ tokens # <<>>
          /\ \A k \in 1..Len(tokens) : tokens[k].type = "EOF" <=> k = Len(tokens)
          /\ \A k \in 1..(Len(tokens) - 1) :
                /\ tokens[k].pos >= 0 /\ tokens[k].pos < Len(source)
                /\ k > 1 => tokens[k - 1].pos < tokens[k].pos

\* tokenize has returned for a text that ends in a string that is not closed:
\* the End-of-input token lies behind the text
C16_EndBehindText ==
    /\ Tokenized
    /\ Len(tokens) >= 3
    /\ tokens[Len(tokens)].pos > Len(source)
    /\ tokens[Len(tokens) - 1].type = "String"

\* parse has returned its Program
Parsed == front \in {"parsed", "generated"}

\* C17: a text that starts `@props ident ...` (no braces) parses to a Directive
\* whose arguments start with that identifier, and no Element is made of the
\* identifier.
C17_PropsWithoutBraces ==
    (/\ Parsed
     /\ Len(tokens) >= 2
     /\ tokens[1].type = "Directive" /\ tokens[1].value = PROPS_TEXT
     /\ tokens[2].type = "Identifier") =>
        /\ program.kids[1].type = "Directive"
        /\ program.kids[1].args # <<>>
        /\ program.kids[1].args[1] = PropName(tokens[2].value)
        /\ ~(/\ Len(program.kids) >= 2
             /\ program.kids[2].type = "Element"
             /\ program.kids[2].tagName = tokens[2].value)

IsSymbol(k, value) == tokens[k].type = "Symbol" /\ tokens[k].value = value

\* every block in the tokens belongs to an element or to a directive whose
\* arguments are read (the block of an unknown directive is skipped as designed)
KnownBlocks ==
    \A k \in 1..(Len(tokens) - 1) :
        (tokens[k].type = "Directive" /\ IsSymbol(k + 1, <<"{">>)) =>
            tokens[k].value \in ResourceDirectives \cup {PROPS_TEXT}

\* the symbols open and close pair up in the tokens
Balanced(open, close) ==
    LET Depth(k) == Cardinality({j \in 1..k : IsSymbol(j, open)})
                        - Cardinality({j \in 1..k : IsSymbol(j, close)})
    IN /\ \A k \in 1..Len(tokens) : Depth(k) >= 0
       /\ Depth(Len(tokens)) = 0

\* the names and texts of a tree in the order of writing, property values left out
RECURSIVE Leaves(_), LeavesOfEach(_)
LeavesOfEach(nodes) ==
    IF nodes = <<>> THEN <<>> ELSE Leaves(Head(nodes)) \o LeavesOfEach(Tail(nodes))
Leaves(node) ==
    CASE node.type = "Directive" ->
            <<node.name>> \o
            LeavesOfEach([k \in 1..Len(node.args) |->
                [type |-> "Names",
                 names |-> IF "value" \in DOMAIN node.args[k]
                           THEN <<node.args[k].key, node.args[k].value>>
                           ELSE <<node.args[k].key>>]])
      [] node.type = "Names" -> node.names
      [] node.type = "Element" ->
            <<node.tagName>> \o [k \in 1..Len(node.properties) |-> node.properties[k].key]
                \o LeavesOfEach(node.kids)
      [] node.type = "Text" -> <<node.value.v>>
      [] node.type = "Expression" -> <<node.content.v>>
      [] OTHER -> LeavesOfEach(node.kids)

RECURSIVE PropertyCount(_), PropertyCountOfEach(_)
PropertyCountOfEach(nodes) ==
    IF nodes = <<>> THEN 0 ELSE PropertyCount(Head(nodes)) + PropertyCountOfEach(Tail(nodes))
PropertyCount(node) == Len(node.properties) + PropertyCountOfEach(node.kids)

\* the same of the tokens: no symbols, no End-of-input, no token behind an `=`
TokenLeaves ==
    LET IsLeaf(k) == /\ tokens[k].type \notin {"Symbol", "EOF"}
                     /\ ~(k > 1 /\ IsSymbol(k - 1, <<"=">>))
        leafIndexes == {k \in 1..Len(tokens) : IsLeaf(k)}
        Nth(n) == CHOOSE k \in leafIndexes : Cardinality({j \in leafIndexes : j < k}) = n - 1
    IN [n \in 1..Cardinality(leafIndexes) |->
           IF tokens[Nth(n)].type = "Expression" THEN StripExpression(tokens[Nth(n)].value)
           ELSE tokens[Nth(n)].value]

\* C15: parse returns only with the cursor on End-of-input, after a token list
\* whose braces and parentheses pair up and whose names and texts are all in
\* the Program in their order (a property written twice aside); when it throws
\* no Program is returned and the cursor stays on the token that did not fit.
C15_AllTokensOrThrow ==
    /\ front = "parsefailed" =>
          /\ program = Program(<<>>)
          /\ current <= Len(tokens) - 1
    /\ Parsed =>
          /\ current = Len(tokens) - 1
          /\ KnownBlocks => Balanced(<<"{">>, <<"}">>) /\ Balanced(<<"(">>, <<")">>)
          /\ (/\ KnownBlocks
              /\ PropertyCount(program)
                     = Cardinality({k \in 1..Len(tokens) : IsSymbol(k, <<"=">>)})) =>
                Leaves(program) = TokenLeaves

\* parse threw at End-of-input: a body or a block was open and is not closed
C15_UnclosedBlockThrows ==
    /\ front = "parsefailed"
    /\ peek(tokens, current).type = "EOF"
    /\ \E k \in 1..Len(tokens) : IsSymbol(k, <<"{">>)

\* String(n) of a whole number
RECURSIVE DecimalText(_)
DecimalText(n) ==
    IF n < 0 THEN <<"-">> \o DecimalText(0 - n)
    ELSE IF n < 10 THEN <<DigitChars[n + 1]>>
    ELSE Append(DecimalText(n \div 10), DigitChars[(n % 10) + 1])

\* the characters of a property text of the markup
TextChars(text) ==
    CASE text.t = "chars" -> text.v
      [] text.t = "numtext" -> DecimalText(text.v)
      [] text = Str("true") -> TRUE_TEXT
      [] text = Str("false") -> FALSE_TEXT

\* a number literal: digits, a minus sign before them if any
IsNumberLiteral(text) ==
    LET digits == IF text # <<>> /\ Head(text) = "-" THEN Tail(text) ELSE text
    IN digits # <<>> /\ \A k \in 1..Len(digits) : digits[k] \in Digits

\* a written value as the coercion rule reads it: true and false in small
\* letters, a number literal in its shortest spelling, any other text as it is
AsWritten(text) ==
    IF ToLowerCase(text) \in {TRUE_TEXT, FALSE_TEXT} THEN ToLowerCase(text)
    ELSE IF IsNumberLiteral(text) THEN DecimalText(NumberOf(text))
    ELSE text

HasBinding(text) == \E k \in 1..(Len(text) - 1) : text[k] = "{" /\ text[k + 1] = "{"

\* the tokens are those of elements with property lists and child blocks alone
ElementsOnly ==
    \A k \in 1..Len(tokens) :
        /\ tokens[k].type \in {"Identifier", "Symbol", "String", "Number", "EOF"}
        /\ tokens[k].type \in {"String", "Number"} =>
              /\ k > 1 /\ IsSymbol(k - 1, <<"=">>)
              /\ ~HasBinding(tokens[k].value)

\* the tokens that name an element: identifiers outside of the property lists
TagTokens ==
    {k \in 1..Len(tokens) :
        /\ tokens[k].type = "Identifier"
        /\ Cardinality({j \in 1..k : IsSymbol(j, <<"(">>)})
               = Cardinality({j \in 1..k : IsSymbol(j, <<")">>)})}
\* the lines of the markup that start an element
ElementLines == {l \in 1..Len(markup) : markup[l].kind \in {"open", "self"}}
NthOf(set, n) == CHOOSE k \in set : Cardinality({j \in set : j < k}) = n - 1

\* the tokens that are property names in the list behind the tag token k
KeyTokens(k) ==
    IF ~IsSymbol(k + 1, <<"(">>) THEN {}
    ELSE LET closes == {j \in (k + 1)..Len(tokens) : IsSymbol(j, <<")">>)}
             close == CHOOSE j \in closes : \A i \in closes : j <= i
         IN {j \in (k + 2)..(close - 1) :
                /\ tokens[j].type = "Identifier"
                /\ IsSymbol(j + 1, <<"=">>)
                /\ IsSymbol(j - 1, <<"(">>) \/ IsSymbol(j - 1, <<",">>)}
\* the blocks that are open at token k
BlockDepth(k) ==
    Cardinality({j \in 1..k : IsSymbol(j, <<"{">>)})
        - Cardinality({j \in 1..k : IsSymbol(j, <<"}">>)})

\* C13: the markup generated from a text of elements, property lists and child
\* blocks alone has the elements of the text in their order and nesting, each
\* with the property names of its list and, for every name, the value written
\* for it (read by the coercion rule; the last one if the name is written
\* twice).
C13_RoundTrip ==
    (front = "generated" /\ ElementsOnly) =>
        /\ Cardinality(ElementLines) = Cardinality(TagTokens)
        /\ \A n \in 1..Cardinality(ElementLines) :
              LET line == markup[NthOf(ElementLines, n)]
                  tag == NthOf(TagTokens, n)
                  keys == KeyTokens(tag)
              IN /\ line.tagName = tokens[tag].value
                 /\ line.indent = IF NthOf(ElementLines, n) = 1 THEN 0
                                   ELSE 1 + BlockDepth(tag)
                 /\ {line.properties[p].key : p \in 1..Len(line.properties)}
                        = {tokens[j].value : j \in keys}
                 /\ \A p \in 1..Len(line.properties) :
                        \E j \in keys :
                            /\ tokens[j].value = line.properties[p].key
                            /\ \A i \in keys : tokens[i].value = tokens[j].value => i <= j
                            /\ TextChars(line.properties[p].text)
                                   = AsWritten(tokens[j + 2].value)

\* the value the coercion rule stores for a written text: a boolean for true
\* and false, a number for a number literal, the text itself otherwise
StoredAsRuled(text) ==
    IF ToLowerCase(text) = TRUE_TEXT THEN Bool(TRUE)
    ELSE IF ToLowerCase(text) = FALSE_TEXT THEN Bool(FALSE)
    ELSE IF IsNumberLiteral(text) THEN Num(NumberOf(text))
    ELSE Chars(text)

\* C29: every property of the element a text starts with is stored as the
\* coercion rule says: boolean before number, and a text that is not a number
\* literal (a word, a placeholder, the empty string) unchanged.
C29_CoercionOrder ==
    (/\ Parsed
     /\ tokens[1].type = "Identifier"
     /\ KeyTokens(1) # {}) =>
        \A j \in KeyTokens(1) :
            (\A i \in KeyTokens(1) : tokens[i].value = tokens[j].value => i <= j) =>
                \E p \in 1..Len(program.kids[1].properties) :
                    /\ program.kids[1].properties[p].key = tokens[j].value
                    /\ program.kids[1].properties[p].value = StoredAsRuled(tokens[j + 2].value)

\* the marker at index i of a sibling list has no terminator: an `if` with no
\* balancing `end if`, a `for` with no `end for` after it
Unterminated(nodes, i) ==
    \/ IsIfMarker(nodes[i]) /\ BalancedEndIfs(nodes, i) = {}
    \/ /\ IsForMarker(nodes[i])
       /\ \A j \in (i + 1)..Len(nodes) :
              ~(nodes[j].type = "Expression" /\ nodes[j].content.k = "endfor")

\* the sibling list of a running scan, as node records
ListNodes(f) == [i \in 1..Len(heap[f.node].kids) |-> heap[heap[f.node].kids[i]]]

\* C21 as claimed: a sibling list in which the scan has passed a marker with
\* no terminator is left unchanged by every later step.
C21_ListUnchanged ==
    [][\A k \in TravFrames :
          (/\ HasKids(heap[stack[k].node])
           /\ \E j \in 1..Len(heap[stack[k].node].kids) :
                  /\ heap[stack[k].node].kids[j] \in stack[k].seen
                  /\ Unterminated(ListNodes(stack[k]), j)) =>
              heap'[stack[k].node].kids = heap[stack[k].node].kids]_vars

\* C21: the step of the scan at a marker with no terminator changes no node
\* and moves the scan to the next sibling, and no step changes the part of a
\* sibling list that a running scan has passed: the marker and what is in
\* front of it stay in place.
C21_MarkerLeftInPlace ==
    [][/\ (AtChild /\ Unterminated(ChildNodes, Top.i)) =>
             /\ heap' = heap
             /\ Len(stack') >= Len(stack)
             /\ stack'[Len(stack)].i = Top.i + 1
       /\ \A k \in TravFrames :
             (/\ k <= Len(stack')
              /\ stack'[k].kind = "trav"
              /\ stack'[k].node = stack[k].node
              /\ HasKids(heap[stack[k].node])) =>
                 /\ stack'[k].i >= stack[k].i
                 /\ SubSeq(heap'[stack[k].node].kids, 1, stack[k].i - 1)
                        = SubSeq(heap[stack[k].node].kids, 1, stack[k].i - 1)]_vars

\* a block has been resolved in a list behind a marker with no terminator
C21_BlockBehindOpenMarker ==
    /\ lastSplice.op \in {"if", "loop"}
    /\ \E j \in 1..(lastSplice.startIndex - 1) :
          Unterminated([i \in 1..Len(lastSplice.before) |-> heap[lastSplice.before[i]]], j)

\* what stands in `after` where the range of `before` stood
Replacement(sp) ==
    SubSeq(sp.after, sp.startIndex, Len(sp.after) - (Len(sp.before) - sp.endIndex))

\* C22: a step that resolves a conditional or splices an expanded loop changes
\* one sibling list and no other node; the siblings in front of the opening
\* marker and behind the closing marker are the same nodes in the same order,
\* and in place of the range stand, in order, the surviving nodes of one
\* branch or the new nodes of the items.  While a loop is being expanded no
\* step changes a node of the list the loop stands in.
C22_OnlyRangeChanges ==
    [][/\ (lastSplice' # lastSplice /\ lastSplice'.op \in {"if", "loop"}) =>
             LET sp == lastSplice'
                 behind == Len(sp.before) - sp.endIndex
             IN /\ sp.before = heap[sp.list].kids
                /\ sp.after = heap'[sp.list].kids
                /\ \A a \in DOMAIN heap : a # sp.list => heap'[a] = heap[a]
                /\ Len(sp.after) >= sp.startIndex - 1 + behind
                /\ SubSeq(sp.after, 1, sp.startIndex - 1)
                       = SubSeq(sp.before, 1, sp.startIndex - 1)
                /\ SubSeq(sp.after, Len(sp.after) - behind + 1, Len(sp.after))
                       = SubSeq(sp.before, sp.endIndex + 1, Len(sp.before))
                /\ sp.op = "if" =>
                       \E a \in (sp.startIndex + 1)..sp.endIndex :
                           \E b \in (a - 1)..(sp.endIndex - 1) :
                               Replacement(sp) = SubSeq(sp.before, a, b)
                /\ sp.op = "loop" =>
                       /\ Len(Replacement(sp)) = Len(sp.from)
                       /\ \A i \in 1..Len(sp.from) :
                              /\ Replacement(sp)[i] \notin Reach(heap, sp.list)
                              /\ ToValue(heap', Replacement(sp)[i]) = sp.done[i]
                              /\ i > 1 => sp.from[i - 1] <= sp.from[i]
       /\ \A k \in 1..Len(stack) :
             stack[k].kind = "loop" =>
                 \A a \in ReachAll(heap, heap[stack[k].list].kids) : heap'[a] = heap[a]]_vars

\* a loop over several items has been spliced between two siblings
C22_LoopBetweenSiblings ==
    /\ lastSplice.op = "loop"
    /\ lastSplice.startIndex > 1
    /\ lastSplice.endIndex < Len(lastSplice.before)
    /\ Len(lastSplice.from) >= 2

\* the array a loop over `path` iterates by the rule: the declared dataset of
\* that name, else what the path reaches in the data context; Undef when
\* neither gives an array
ArrayByRule(path, dataContext) ==
    IF Len(path) = 1 /\ path[1] \in DOMAIN dataMap THEN dataMap[path[1]]
    ELSE LET found == Reached(dataContext, WalkedPath(path, dataContext))
         IN IF found.t = "arr" THEN found ELSE Undef

\* the loop frames above which nothing but the walk of their instance runs
LoopFramesBelow(k) == {m \in 1..(k - 1) : stack[m].kind = "loop"}

\* C23: a loop iterates the array the rule gives for its path and the data
\* context of the scan, and is left unexpanded when the rule gives none; the
\* data context of a scan is the item of the iteration of the innermost loop
\* whose instance it walks, and there is none outside every loop.
C23_LoopArrayByRule ==
    /\ (AtLoop /\ Child.content.k = "for"
           /\ Top.i < Len(Children) /\ ChildNodes[Top.i + 1].type = "Element") =>
          LET byRule == ArrayByRule(Child.content.path, Top.dataContext)
          IN IF byRule = Undef THEN Plan.outcome = "array"
             ELSE Plan.outcome # "array" /\ Plan.dataArray = byRule.v
    /\ \A k \in 1..Len(stack) :
          /\ stack[k].kind = "loop" =>
                LET marker == heap[heap[stack[k].list].kids[stack[k].startIndex]]
                IN stack[k].dataArray
                       = ArrayByRule(marker.content.path, stack[k - 1].dataContext).v
          /\ stack[k].kind = "trav" =>
                stack[k].dataContext
                    = IF LoopFramesBelow(k) = {} THEN Undef
                      ELSE LET m == CHOOSE x \in LoopFramesBelow(k) :
                                        \A y \in LoopFramesBelow(k) : y <= x
                           IN stack[m].dataArray[stack[m].k]

\* an iteration of a loop over the declared dataset `items` is being walked
\* inside an iteration over an item that has a field `items` of its own
C23_DatasetOverField ==
    \E k \in 1..Len(stack) :
        /\ stack[k].kind = "loop"
        /\ stack[k].k > 0
        /\ LoopFramesBelow(k) # {}
        /\ heap[heap[stack[k].list].kids[stack[k].startIndex]].content.path = <<"items">>
        /\ Reached(stack[k - 1].dataContext, <<"items">>).t = "arr"
        /\ stack[k].dataArray # Reached(stack[k - 1].dataContext, <<"items">>).v

\* the first property a component file declares with @props, "" when none
DeclaredAlias(component) ==
    LET props == {c \in 1..Len(component.kids) :
                     /\ component.kids[c].type = "Directive"
                     /\ component.kids[c].name = "@props"
                     /\ component.kids[c].args # <<>>}
    IN IF props = {} THEN ""
       ELSE component.kids[CHOOSE c \in props : \A d \in props : c <= d].args[1].key

\* C24: in a loop over a component reference, a property `{{ <alias>.<field> }}`
\* of the component's elements, <alias> being the first property the component
\* declares, is bound to the item's field in every instance, whatever the
\* properties of the reference element are.
C24_AliasIsDeclaredProp ==
    (/\ lastSplice.op = "loop"
     /\ lastSplice.template[1].type = "Program"
     /\ DeclaredAlias(lastSplice.template[1]) # "") =>
        \A i \in 1..Len(lastSplice.done) :
            \A c \in 1..Len(lastSplice.template[1].kids) :
                \A p \in 1..Len(lastSplice.template[1].kids[c].properties) :
                    LET val == lastSplice.template[1].kids[c].properties[p].value
                        item == lastSplice.dataArray[lastSplice.from[i]]
                    IN (/\ val.t = "bind"
                        /\ Len(val.v) = 2
                        /\ val.v[1] = DeclaredAlias(lastSplice.template[1])
                        /\ Reached(item, <<val.v[2]>>) # Undef) =>
                           lastSplice.done[i].kids[c].properties[p].value
                               = Reached(item, <<val.v[2]>>)

\* the Text children of an instance `done` of the template `tmpl` whose value
\* is `{{ <head>.<rest> }}` with <head> in heads hold what <rest> reaches in
\* the item, where it reaches something; lists that hold a marker are left out
RECURSIVE TextsBound(_, _, _, _)
TextsBound(tmpl, done, item, heads) ==
    (\A c \in 1..Len(tmpl.kids) : tmpl.kids[c].type # "Expression") =>
        \A c \in 1..Len(tmpl.kids) :
            LET t == tmpl.kids[c]
            IN IF t.type = "Text"
               THEN (/\ t.value.t = "bind"
                     /\ Len(t.value.v) >= 2
                     /\ t.value.v[1] \in heads
                     /\ Reached(item, Tail(t.value.v)) # Undef) =>
                        done.kids[c].value = Reached(item, Tail(t.value.v))
               ELSE TextsBound(t, done.kids[c], item, heads)

\* C25: after a loop is expanded, a Text `{{ <loopVar>.<rest> }}` of the body
\* (a component's or an inline element's) holds in every instance the value
\* that all of <rest> reaches in the instance's item.
C25_TextBoundToWholePath ==
    lastSplice.op = "loop" =>
        \A i \in 1..Len(lastSplice.done) :
            TextsBound([kids |-> lastSplice.template],
                       [kids |-> <<lastSplice.done[i]>>],
                       lastSplice.dataArray[lastSplice.from[i]], {lastSplice.loopVar})

\* the calls of a loader for one reference
CallsOf(loader, path) ==
    {c \in 1..Len(loaderCalls) :
        loaderCalls[c].loader = loader /\ loaderCalls[c].path = path}

\* C26: each loader has been called at most once for a reference, every value
\* handed out for a reference goes back to one call of its loader, and no step
\* replaces or removes an entry of a cache or changes a node of a cached tree.
C26_OneLoadPerReference ==
    [][/\ \A c \in 1..Len(loaderCalls') :
             Cardinality({d \in 1..Len(loaderCalls') : loaderCalls'[d] = loaderCalls'[c]}) = 1
       /\ \A r \in 1..Len(retrievals') :
             \E c \in 1..Len(loaderCalls') :
                 /\ loaderCalls'[c].loader = retrievals'[r].cache
                 /\ loaderCalls'[c].path = retrievals'[r].path
       /\ \A path \in DOMAIN componentAstCache :
             /\ path \in DOMAIN componentAstCache'
             /\ componentAstCache'[path] = componentAstCache[path]
             /\ \A a \in ReachAll(heap, componentAstCache[path]) : heap'[a] = heap[a]
       /\ \A path \in DOMAIN dataCache :
             /\ path \in DOMAIN dataCache'
             /\ dataCache'[path] = dataCache[path]
             /\ docs'[dataCache[path]] = docs[dataCache[path]]]_vars

\* a component and a data file have each been handed out twice after one call
\* of their loader
C26_ServedFromCache ==
    \E loader \in {"component", "data"} :
        \E i, j \in 1..Len(retrievals) :
            /\ i < j
            /\ retrievals[i].cache = loader /\ retrievals[j].cache = loader
            /\ retrievals[i].path = retrievals[j].path
            /\ Cardinality(CallsOf(loader, retrievals[i].path)) = 1

\* the `else` markers of the last conditional's own level
IfElses == {d \in IfDividers : IfNodes[d].content.k = "else"}

\* C30: while no loop is being expanded every call of the walk has no data
\* context, and a conditional resolved without a data context gives way to
\* the nodes of its first `else` branch, or to nothing when it has none,
\* whatever datasets are declared.
C30_NoContextKeepsElse ==
    /\ (phase = "resolving" /\ LoopFramesBelow(Len(stack) + 1) = {}) =>
           \A k \in 1..Len(stack) : stack[k].dataContext = Undef
    /\ (lastSplice.op = "if" /\ lastSplice.dataContext = Undef) =>
           IF IfElses = {} THEN lastSplice.after = IfAround(<<>>)
           ELSE LET w == Least(IfElses)
                    next == Least({d \in IfDividers : d > w} \cup {lastSplice.endIndex})
                IN lastSplice.after = IfAround(SubSeq(lastSplice.before, w + 1, next - 1))

\* with a dataset declared, a conditional outside any loop has been resolved:
\* one with an `else`, whose branch is kept, or one naming the dataset, of
\* which nothing is kept
C30_TopLevelConditional ==
    /\ phase = "resolving"
    /\ lastSplice.op = "if"
    /\ lastSplice.dataContext = Undef
    /\ lastSplice.list = finalAst
    /\ LoopFramesBelow(Len(stack) + 1) = {}
    /\ "items" \in DOMAIN dataMap
    /\ \/ IfElses # {} /\ Len(lastSplice.after) > Len(IfAround(<<>>))
       \/ /\ IfNodes[lastSplice.startIndex].content.path = <<"items">>
          /\ lastSplice.after = IfAround(<<>>)

\* C27: the text generate gives for a parsed tree has lines of elements and of
\* texts only: a node of another kind gives no line of text of its own.
C27_OtherKindsGiveNoText ==
    front = "generated" =>
        \A i \in 1..Len(markup) : markup[i].kind \in {"open", "close", "self", "text", "empty"}

\* the identifiers the two rules give for the nodes of a tree, whether their
\* asset exists or not
PropertyStyles(h, root) ==
    UNION {{StyleName(StyleTag(h[a].tagName), h[a].properties[i].value.v) :
               i \in {j \in 1..Len(h[a].properties) : h[a].properties[j].value.t = "res"}} :
           a \in {b \in Reach(h, root) : h[b].type = "Element"}}
DirectiveStyles(h, root) ==
    UNION {{StyleName("", StyleKeyOfPath[h[a].args[i].value]) :
               i \in {j \in 1..Len(h[a].args) : h[a].args[j].value \in DOMAIN StyleKeyOfPath}} :
           a \in {b \in Reach(h, root) : h[b].type = "Directive" /\ h[b].name = "@useStyle"}}

\* the members of a sequence
Members(s) == {s[k] : k \in 1..Len(s)}

\* C28: findStaticResourceStyles keeps what the result set holds and adds to
\* it exactly the identifiers that a `StaticResource` property of an Element
\* or a styles/ argument of an @useStyle gives anywhere in the tree, Program
\* bodies included, and whose asset exists.
C28_StylesFound ==
    phase = "analysed" =>
        LET stylesDir == DOMAIN StyleFiles(input.styles)
            found == (PropertyStyles(heap, finalAst) \cup DirectiveStyles(heap, finalAst))
                         \cap stylesDir
        IN /\ Members(styleFileNames) = found
           /\ Cardinality(found) = Len(styleFileNames)
           /\ \A seed \in {<<>>, <<StyleName("", "Kept")>>, <<StyleName("", "Btn")>>} :
                  LET results == findStaticResourceStyles(ToValue(heap, finalAst), seed,
                                     stylesDir)
                  IN /\ SubSeq(results, 1, Len(seed)) = seed
                     /\ Members(results) = Members(seed) \cup found

\* the walk has found a style in the body of a component instance, a Program
\* below the root, and a style named by @useStyle, and has left out the two
\* whose asset does not exist
C28_StyleInComponentBody ==
    /\ phase = "analysed"
    /\ Members(styleFileNames) = {StyleName("local-Button", "Big"), StyleName("", "Btn")}
    /\ StyleName("local-Button", "Small") \in PropertyStyles(heap, finalAst)
    /\ StyleName("", "Absent") \in DirectiveStyles(heap, finalAst)
    /\ \E p \in Descendants(heap, finalAst) :
           /\ heap[p].type = "Program"
           /\ \E a \in Descendants(heap, p) :
                  /\ heap[a].tagName = "local:Button"
                  /\ \E i \in 1..Len(heap[a].properties) : heap[a].properties[i].value = Res("Big")
====
